---- MODULE Spec2Model ----
(***************************************************************************)
(* Verification model of the RPC / connection-multiplexing core.           *)
(*                                                                         *)
(* Part 1: the reference counter DefaultRc                                 *)
(* (src/packages/terminal/src/node/terminal-backend-module.ts:116-274).    *)
(*                                                                         *)
(* One Rc state record (DefaultRcState) is shared by all handles.  The     *)
(* code is single threaded, but it calls out to foreign code in two        *)
(* places: the dispose callback (line 246) and the will-dispose listeners  *)
(* (line 269).  Foreign code may call back into the Rc before it returns,  *)
(* so both call-outs are modelled as frames of a control stack: while a    *)
(* "fire" frame is on top a listener is running inside disposeRef, while a *)
(* "cb" frame is on top the dispose callback is running inside dispose().  *)
(***************************************************************************)
EXTENDS Integers, Sequences, FiniteSets, TLC

VARIABLES
    rc,      \* one DefaultRc state record with its handles (part 1)
    sp,      \* a DefaultServiceProvider and the getService call made on it
    router,  \* a Router, its handlers and the request it is routing
    ms,      \* the messaging backend: scopes per frontend and their requests
    svc,     \* the services served over JSON-RPC connections and their release
    rpc,     \* an RpcConnection and the proxy (RpcProxyHandler) created over it
    srv,     \* an RpcConnection and the servers served on it by DefaultRpc.serve
    rh,      \* a handler made by createRouteHandler and the request given to it
    cr,      \* a chain of containers and the collectRecursive call made on it
    ag,      \* an AgentServiceImpl: registered agents and disabled ids
    mux      \* a ConnectionMultiplexer, its carrier and its logical channels

vars == <<rc, sp, router, ms, svc, rpc, srv, rh, cr, ag, mux>>

\* Each component is checked under its own specification; the variables of
\* the other components then hold this value and never change.
Unused == "unused"

\* Bounds of the model.
MaxHandles == 4
MaxDepth == 4

Handles == 1..MaxHandles

Top(s) == IF s.stack = <<>> THEN "none" ELSE s.stack[Len(s.stack)]

Pop(s) == [s EXCEPT !.stack = SubSeq(@, 1, Len(@) - 1)]

LiveHandles(s) == {h \in Handles : s.hs[h] = "live"}

FreeHandles(s) == {h \in Handles : s.hs[h] = "none"}

\* Start of an API call or of a return of foreign code: resets the observed
\* outcome of the step.  tick only tells consecutive steps apart.
Begin(s, op, h) ==
    [s EXCEPT !.op = op, !.h = h, !.res = "ok", !.warn = FALSE, !.tick = 1 - @]

\* An Emitter whose dispose() has run has no listeners left: fire() on it
\* delivers nothing.
EmitterDelivers(s) == ~s.emDisposed

\* isRefDisposed(): this.state.ref === undefined
isRefDisposed(s) == ~s.ref

\* isDisposed(): this.disposed
isDisposed(s, h) == s.hs[h] = "disposed"

\* disposeRef(), lines 270-272: what follows the delivery of the event.
\* `this.state.ref!.dispose()` on an undefined ref is a TypeError that leaves
\* line 272 unexecuted.
disposeRefTail_KeepRef(s) ==
    LET e == [s EXCEPT !.emDisposed = TRUE]
    IN  IF e.ref
        THEN [e EXCEPT !.resDisposed = @ + 1]
        ELSE [e EXCEPT !.res = "TypeError"]

disposeRefTail(s) ==
    LET e == [s EXCEPT !.emDisposed = TRUE]
    IN  IF e.ref
        THEN [e EXCEPT !.resDisposed = @ + 1, !.ref = FALSE]
        ELSE [e EXCEPT !.res = "TypeError"]

\* disposeRef(), line 269: the event is delivered with state.ref as payload;
\* the listeners run (a "fire" frame) before the rest of disposeRef.
disposeRef(s) ==
    IF EmitterDelivers(s)
    THEN [s EXCEPT !.fired = @ + 1,
                   !.payloadOk = @ /\ s.ref,
                   !.firedAfterDispose = @ \/ (s.resDisposed > 0),
                   !.stack = Append(@, "fire")]
    ELSE disposeRefTail(s)

\* The function handed to the dispose callback, lines 246-250.
disposeFn(s) ==
    IF s.count = 0
    THEN disposeRef([s EXCEPT !.letThrough = TRUE])
    ELSE s

\* constructor, lines 202-210, creating handle h on the shared state.
construct(s, h) ==
    LET c == [s EXCEPT !.count = @ + 1, !.hs[h] = "live"]
    IN  IF c.count = 1 /\ c.revive
        THEN [c EXCEPT !.revives = @ + 1, !.revive = FALSE]
        ELSE c

\* The state record DefaultRc.New builds, lines 192-197 (c is its count),
\* together with the observations the properties are stated on.
InitState(cb, c) ==
    [hs |-> [h \in Handles |-> "none"],
     count |-> c, ref |-> TRUE, hasCb |-> cb, revive |-> FALSE,
     emDisposed |-> FALSE, stack |-> <<>>, stored |-> FALSE,
     resDisposed |-> 0, fired |-> 0, payloadOk |-> TRUE,
     firedAfterDispose |-> FALSE,
     revives |-> 0, cbCalls |-> 0, letThrough |-> FALSE,
     cloneInFire |-> FALSE,
     op |-> "New", h |-> 1, res |-> "ok", warn |-> FALSE, tick |-> 0]

\* DefaultRc.New, lines 191-198: count 0, then the constructor adds one.
New_CountOne(cb) == construct(InitState(cb, 1), 1)

New(cb) == construct(InitState(cb, 0), 1)

\* ref(), lines 219-227.
ref_ThrowIfDisposed(s, h) ==
    IF isRefDisposed(s) \/ isDisposed(s, h)
    THEN [s EXCEPT !.res = "REF_DISPOSED"]
    ELSE s

ref(s, h) ==
    IF isRefDisposed(s)
    THEN [s EXCEPT !.res = "REF_DISPOSED"]
    ELSE [s EXCEPT !.warn = isDisposed(s, h)]

\* clone(), lines 229-235; n is the new handle.
clone_NoCheck(s, h, n) == construct(s, n)

clone(s, h, n) ==
    IF isRefDisposed(s)
    THEN [s EXCEPT !.res = "REF_DISPOSED"]
    ELSE construct(s, n)

\* dispose(), lines 244-257: the count has just reached zero or not.
release_NoDispose(s) ==
    IF s.count = 0 /\ s.hasCb
    THEN [s EXCEPT !.cbCalls = @ + 1, !.stack = Append(@, "cb")]
    ELSE s

release(s) ==
    IF s.count = 0
    THEN IF s.hasCb
         THEN [s EXCEPT !.cbCalls = @ + 1, !.stack = Append(@, "cb")]
         ELSE disposeRef(s)
    ELSE s

\* dispose(), lines 237-258.
dispose_NoGuard(s, h) ==
    release([s EXCEPT !.hs[h] = "disposed", !.count = @ - 1])

dispose(s, h) ==
    IF isDisposed(s, h)
    THEN [s EXCEPT !.warn = TRUE]
    ELSE release([s EXCEPT !.hs[h] = "disposed", !.count = @ - 1])

----------------------------------------------------------------------------
\* Foreign code runs at top level or inside a will-dispose listener; there it
\* may use any handle it holds and any dispose function it kept.
Caller == Top(rc) \in {"none", "fire"}

\* The other components take no part in the steps of an Rc.
OthersUnused ==
    sp = Unused /\ router = Unused /\ ms = Unused /\ svc = Unused /\ rpc = Unused /\ srv = Unused
    /\ rh = Unused /\ cr = Unused /\ ag = Unused /\ mux = Unused

OthersUnchanged == UNCHANGED <<sp, router, ms, svc, rpc, srv, rh, cr, ag, mux>>

InListener(s) == Top(s) = "fire"

Room == Len(rc.stack) < MaxDepth

Ref(h) ==
    /\ Caller
    /\ rc.hs[h] # "none"
    /\ rc' = ref(Begin(rc, "ref", h), h)
    /\ OthersUnchanged

Clone(h) ==
    /\ Caller
    /\ rc.hs[h] # "none"
    /\ FreeHandles(rc) # {}
    /\ LET n == CHOOSE x \in FreeHandles(rc) : \A y \in FreeHandles(rc) : x <= y
           b == Begin(rc, "clone", h)
           r == clone(b, h, n)
       IN  rc' = IF r.res = "ok" /\ InListener(rc)
                 THEN [r EXCEPT !.cloneInFire = TRUE]
                 ELSE r
    /\ OthersUnchanged

Dispose(h) ==
    /\ Caller
    /\ rc.hs[h] # "none"
    /\ Room
    /\ rc' = dispose(Begin(rc, "dispose", h), h)
    /\ OthersUnchanged

\* A dispose function kept by the callback is called later.
CallStored ==
    /\ Caller
    /\ rc.stored
    /\ Room
    /\ rc' = disposeFn(Begin(rc, "disposeFn", 0))
    /\ OthersUnchanged

\* The will-dispose listeners return: disposeRef goes on after line 269.
FireReturn ==
    /\ Top(rc) = "fire"
    /\ rc' = disposeRefTail(Pop(Begin(rc, "fireReturn", 0)))
    /\ OthersUnchanged

\* The running dispose callback calls the function it was given.
CbCallDispose ==
    /\ Top(rc) = "cb"
    /\ Room
    /\ rc' = disposeFn(Begin(rc, "disposeFn", 0))
    /\ OthersUnchanged

\* The running dispose callback keeps the function it was given.
CbStore ==
    /\ Top(rc) = "cb"
    /\ ~rc.stored
    /\ rc' = [Begin(rc, "cbStore", 0) EXCEPT !.stored = TRUE]
    /\ OthersUnchanged

\* The dispose callback returns a revive function, returns nothing, or
\* throws; lines 251-253.
CbReturn(ret) ==
    /\ Top(rc) = "cb"
    /\ LET p == Pop(Begin(rc, "cbReturn", 0))
       IN  rc' = CASE ret = "revive" -> [p EXCEPT !.revive = TRUE]
                   [] ret = "void" -> p
                   [] OTHER -> [p EXCEPT !.res = "CallbackError"]
    /\ OthersUnchanged

InitRc == OthersUnused /\ \E cb \in BOOLEAN : rc = New(cb)

NextRc ==
    \/ \E h \in Handles : Ref(h)
    \/ \E h \in Handles : Clone(h)
    \/ \E h \in Handles : Dispose(h)
    \/ CallStored
    \/ FireReturn
    \/ CbCallDispose
    \/ CbStore
    \/ \E ret \in {"revive", "void", "throw"} : CbReturn(ret)

SpecRc == InitRc /\ [][NextRc]_vars

----------------------------------------------------------------------------
\* Claims about the reference counter, checked under SpecRc.

AllReleased(s) == \A h \in Handles : s.hs[h] # "live"

Settled(s) == s.stack = <<>>

\* C1: over every sequence of clone() and dispose() calls, with or without a
\* dispose callback and whatever the callback does with the dispose function,
\* the resource's dispose() is never called a second time, and it has been
\* called once every handle is released and disposal was let through (no
\* callback, or the dispose function was invoked at count zero).
C1_DisposedExactlyOnce ==
    /\ rc.resDisposed <= 1
    /\ (AllReleased(rc) /\ Settled(rc) /\ (~rc.hasCb \/ rc.letThrough))
          => rc.resDisposed = 1

\* C1 witness: a callback kept the dispose function, it was invoked at count
\* zero and again after the resource was gone.
C1_Witness ==
    /\ rc.hasCb /\ rc.letThrough /\ rc.resDisposed = 1
    /\ rc.op = "disposeFn" /\ rc.res = "TypeError" /\ Settled(rc)

\* C2: the resource's dispose() is called only in a state where every handle
\* created so far has been disposed (the count is zero).
C2_DisposedOnlyWhenAllReleased ==
    [][rc'.resDisposed > rc.resDisposed => (rc.count = 0 /\ AllReleased(rc))]_vars

C4_ReviveKeepsAlive ==
    [][/\ (rc.revive /\ rc.ref /\ rc'.op = "clone")
            => (rc'.revives = rc.revives + 1 /\ ~rc'.revive)
       /\ (rc.revives > 0 /\ rc'.resDisposed > rc.resDisposed)
            => (rc.count = 0 /\ rc.resDisposed = 0)]_vars

\* C5: the shared count equals the number of handles not yet disposed; a
\* successful clone adds exactly one live handle, an effective dispose
\* removes exactly one.
C5_CountIsLiveHandles ==
    /\ (rc.count = 1 /\ LiveHandles(rc) = {1})
    /\ [][/\ rc'.count = Cardinality(LiveHandles(rc'))
          /\ (rc'.op = "clone" /\ rc'.res = "ok")
               => (/\ rc'.count = rc.count + 1
                   /\ \E n \in FreeHandles(rc) :
                         LiveHandles(rc') = LiveHandles(rc) \cup {n})
          /\ (rc'.op = "dispose" /\ rc.hs[rc'.h] = "live")
               => (/\ rc'.count = rc.count - 1
                   /\ LiveHandles(rc') = LiveHandles(rc) \ {rc'.h})]_vars

\* C5 witness: a clone was taken while an earlier handle was already
\* disposed and another still live.
C5_Witness ==
    /\ rc.op = "clone" /\ rc.res = "ok" /\ rc.count = 2
    /\ \E h \in Handles : rc.hs[h] = "disposed"

\* C6: once the target is gone it stays gone, every ref() and clone() fails,
\* and a failed clone() changes neither the count nor any handle.
C6_DisposedForever ==
    [][(~rc.ref) =>
         /\ ~rc'.ref
         /\ rc'.op \in {"ref", "clone"} => rc'.res = "REF_DISPOSED"
         /\ rc'.op = "clone" => (rc'.count = rc.count /\ rc'.hs = rc.hs)]_vars

\* C6 witness: a clone() was refused because the resource is gone.
C6_Witness == rc.op = "clone" /\ rc.res = "REF_DISPOSED" /\ rc.resDisposed = 1

\* C7: dispose() on a handle that is already disposed changes nothing (count,
\* resource, handles, callbacks, control stack) and does not fail.
C7_DisposeIdempotent ==
    [][(rc'.op = "dispose" /\ rc.hs[rc'.h] = "disposed") =>
         /\ rc'.res = "ok"
         /\ rc' = [rc EXCEPT !.op = "dispose", !.h = rc'.h, !.res = "ok",
                             !.warn = TRUE, !.tick = 1 - @]]_vars

\* C7 witness: a second dispose() on a handle while another handle keeps the
\* resource alive.
C7_Witness ==
    /\ rc.op = "dispose" /\ rc.warn /\ rc.count > 0 /\ rc.ref

\* C8: whenever the target is gone, every handle sharing the state is
\* disposed.
C8_RefDisposedImpliesAllDisposed == isRefDisposed(rc) => AllReleased(rc)

\* C9: the will-dispose event is delivered exactly once per resource, with
\* the resource as payload, before the resource's dispose() is called, and a
\* ref() made while the listeners run obtains the resource.
C9_WillDisposeOnce ==
    /\ rc.fired <= 1
    /\ rc.resDisposed = 1 => rc.fired = 1
    /\ rc.payloadOk
    /\ ~rc.firedAfterDispose
    /\ (InListener(rc) /\ rc.op = "ref") => rc.res = "ok"

\* C10: ref() on a handle that was itself disposed, while other handles keep
\* the resource alive, returns the resource and only warns.
C10_RefOnDisposedHandle ==
    [][(rc'.op = "ref" /\ rc.hs[rc'.h] = "disposed" /\ rc.count > 0 /\ rc.ref)
         => (rc'.res = "ok" /\ rc'.warn)]_vars

\* C10 witness: such a ref() happened.
C10_Witness ==
    /\ rc.op = "ref" /\ rc.hs[rc.h] = "disposed" /\ rc.warn /\ rc.res = "ok"
    /\ rc.count > 0

----------------------------------------------------------------------------
\* The RcFactory binding, src/packages/core/src/common/route-handler.ts
\* lines 192-193: `ref => DefaultRc.New(ref)`.  The factory type takes
\* (ref, disposeCallback?); the bound function passes the ref only.  The
\* fields viaFactory and asked record how the Rc was made and whether a
\* dispose callback was handed to the factory.
RcFactory(cb) == [viaFactory |-> TRUE, asked |-> cb] @@ New(FALSE)

\* An Rc made by DefaultRc.New directly, for comparison.
RcDirect(cb) == [viaFactory |-> FALSE, asked |-> cb] @@ New(cb)

InitRcFactory ==
    /\ OthersUnused
    /\ \E f \in BOOLEAN, cb \in BOOLEAN :
          rc = IF f THEN RcFactory(cb) ELSE RcDirect(cb)

SpecRcFactory == InitRcFactory /\ [][NextRc]_vars

\* C11: when the count of an Rc made through the RcFactory with a dispose
\* callback reaches zero the callback has been called, and the resource is
\* disposed only after the callback let the disposal through.
C11_FactoryCallbackDecides ==
    (rc.viaFactory /\ rc.asked /\ rc.count = 0)
        => (rc.cbCalls >= 1 /\ (rc.resDisposed > 0 => rc.letThrough))

----------------------------------------------------------------------------
(***************************************************************************)
(* Part 2: DefaultServiceProvider.getService                               *)
(* (src/packages/core/src/common/service-provider.ts:172-200).             *)
(*                                                                         *)
(* A contribution is a function (serviceId, params, lifecycle) => any, a   *)
(* record serviceId -> factory, or a value of another type (an array).     *)
(* key is the service id it answers ("*": a function answering every id,   *)
(* "none": a record without keys), val what it answers with: "obj" (an     *)
(* object), "falsy" (null, 0, '' or false), "undefined", or "throw".       *)
(***************************************************************************)
MaxContribs == 3

ServiceIds == {"X", "Y"}

Vals == {"obj", "falsy", "undefined", "throw"}

Contributions ==
    [type : {"function"}, key : ServiceIds \cup {"*"}, val : Vals]
        \cup [type : {"record"}, key : ServiceIds, val : Vals]
        \cup {[type |-> "record", key |-> "none", val |-> "undefined"],
              [type |-> "array", key |-> "none", val |-> "undefined"]}

ContributionLists ==
    UNION {[1..n -> Contributions] : n \in 0..MaxContribs}

\* Lines 183-190: what consulting one contribution does.  called: a function
\* of the contribution ran; val: the value of `service`, or "throw".
consult(c, id) ==
    CASE c.type = "function" ->
             [called |-> TRUE,
              val |-> IF c.key \in {"*", id} THEN c.val ELSE "undefined"]
      [] c.type = "record" ->
             IF c.key = id
             THEN [called |-> TRUE, val |-> c.val]
             ELSE [called |-> FALSE, val |-> "undefined"]
      [] OTHER -> [called |-> FALSE, val |-> "undefined"]

\* `if (service)`, line 191.
truthy(v) == v = "obj"

NoServiceFound(id, inv) ==
    [status |-> "error", msg |-> <<"no service found for", id>>,
     index |-> 0, val |-> "undefined", invoked |-> inv]

\* The loop of getService from contribution i on, lines 179-198; inv lists
\* the contributions called so far.
RECURSIVE getServiceFrom(_, _, _, _)
getServiceFrom(cs, id, i, inv) ==
    IF i > Len(cs)
    THEN NoServiceFound(id, inv)
    ELSE LET r == consult(cs[i], id)
             inv2 == IF r.called THEN Append(inv, i) ELSE inv
         IN  IF truthy(r.val)
             THEN [status |-> "ok", msg |-> <<>>, index |-> i, val |-> r.val,
                   invoked |-> inv2]
             ELSE getServiceFrom(cs, id, i + 1, inv2)

\* A loop that remembers the last service found instead of returning the
\* first.
RECURSIVE getServiceLast(_, _, _, _, _)
getServiceLast(cs, id, i, inv, found) ==
    IF i > Len(cs)
    THEN IF found = 0
         THEN NoServiceFound(id, inv)
         ELSE [status |-> "ok", msg |-> <<>>, index |-> found, val |-> "obj",
               invoked |-> inv]
    ELSE LET r == consult(cs[i], id)
             inv2 == IF r.called THEN Append(inv, i) ELSE inv
         IN  getServiceLast(cs, id, i + 1, inv2,
                            IF truthy(r.val) THEN i ELSE found)

getService_LastWins(cs, id) == getServiceLast(cs, id, 1, <<>>, 0)

\* A loop that gives up at the first contribution without a service.
getService_FirstOnly(cs, id) ==
    IF cs = <<>>
    THEN NoServiceFound(id, <<>>)
    ELSE getServiceFrom(SubSeq(cs, 1, 1), id, 1, <<>>)

\* getService(serviceId), lines 178-199.
\* A loop without the try/catch of lines 180-196: the error of a
\* contribution leaves getService.
RECURSIVE getServiceRethrow(_, _, _, _)
getServiceRethrow(cs, id, i, inv) ==
    IF i > Len(cs)
    THEN NoServiceFound(id, inv)
    ELSE LET r == consult(cs[i], id)
             inv2 == IF r.called THEN Append(inv, i) ELSE inv
         IN  IF r.val = "throw"
             THEN [status |-> "thrown", msg |-> <<"contribution error">>,
                   index |-> i, val |-> "undefined", invoked |-> inv2]
             ELSE IF truthy(r.val)
             THEN [status |-> "ok", msg |-> <<>>, index |-> i, val |-> r.val,
                   invoked |-> inv2]
             ELSE getServiceRethrow(cs, id, i + 1, inv2)

getService_Rethrow(cs, id) == getServiceRethrow(cs, id, 1, <<>>)

\* A getService that returns no service instead of throwing.
getService_NoThrow(cs, id) ==
    LET r == getServiceFrom(cs, id, 1, <<>>)
    IN  IF r.status = "error" THEN [r EXCEPT !.status = "ok", !.msg = <<>>] ELSE r

getService(cs, id) == getServiceFrom(cs, id, 1, <<>>)

InitSp ==
    /\ rc = Unused /\ router = Unused /\ ms = Unused /\ svc = Unused /\ rpc = Unused /\ srv = Unused
    /\ rh = Unused /\ cr = Unused /\ ag = Unused /\ mux = Unused
    /\ \E cs \in ContributionLists :
          sp = [contribs |-> cs, phase |-> "new", id |-> "X",
                res |-> NoServiceFound("X", <<>>)]

GetService(id) ==
    /\ sp' = [sp EXCEPT !.phase = "called", !.id = id,
                        !.res = getService(sp.contribs, id)]
    /\ UNCHANGED <<rc, router, ms, svc, rpc, srv, rh, cr, ag, mux>>

NextSp == \E id \in ServiceIds : GetService(id)

SpecSp == InitSp /\ [][NextSp]_vars

\* The contributions of the provider that answer the requested id with a
\* value of the given kind.
Answering(vals) ==
    {i \in 1..Len(sp.contribs) : consult(sp.contribs[i], sp.id).val \in vals}

Least(S) == CHOOSE x \in S : \A y \in S : x <= y

CalledUpTo(n) ==
    {i \in 1..n : consult(sp.contribs[i], sp.id).called}

InvokedSet == {sp.res.invoked[k] : k \in 1..Len(sp.res.invoked)}

InOrder(q) == \A k \in 1..(Len(q) - 1) : q[k] < q[k + 1]

\* C19 as stated: getService returns the result of the first contribution,
\* in registration order, that returns a defined value, falsy values
\* included, and calls no contribution after it.
C19_FirstDefinedWins ==
    (sp.phase = "called" /\ Answering({"obj", "falsy"}) # {}) =>
        LET w == Least(Answering({"obj", "falsy"}))
        IN  /\ sp.res.status = "ok"
            /\ sp.res.index = w
            /\ sp.res.val = consult(sp.contribs[w], sp.id).val
            /\ InvokedSet = CalledUpTo(w)

\* C19 amended: getService returns the result of the first contribution, in
\* registration order, that returns a truthy value; undefined and falsy
\* results are passed over; the contributions are called in registration
\* order and none after the winner is called.
C19_FirstTruthyWins ==
    (sp.phase = "called" /\ Answering({"obj"}) # {}) =>
        LET w == Least(Answering({"obj"}))
        IN  /\ sp.res.status = "ok"
            /\ sp.res.index = w
            /\ sp.res.val = "obj"
            /\ InvokedSet = CalledUpTo(w)
            /\ InOrder(sp.res.invoked)

\* C19 witness: the winner comes after a contribution that answered with a
\* falsy value and before one that would have answered as well.
C19_Witness ==
    /\ sp.phase = "called" /\ sp.res.status = "ok" /\ sp.res.index = 2
    /\ consult(sp.contribs[1], sp.id).val = "falsy"
    /\ Len(sp.contribs) = 3
    /\ consult(sp.contribs[3], sp.id) = [called |-> TRUE, val |-> "obj"]
    /\ sp.res.invoked = <<1, 2>>

\* C20: getService(id) fails with "no service found for <id>" exactly when no
\* contribution yields a service for id; with [{}, {X: () => obj}] it returns
\* obj for X, with [{}, {}] it fails.
C20_NotFoundIffNoService ==
    sp.phase = "called" =>
        /\ (sp.res.status = "error") <=> (Answering({"obj"}) = {})
        /\ sp.res.status = "error"
              => sp.res.msg = <<"no service found for", sp.id>>
        /\ sp.res.status \in {"ok", "error"}

EmptyRecord == [type |-> "record", key |-> "none", val |-> "undefined"]

\* C20 witness: the provider [{}, {X: () => obj}] returned obj for X.
C20_Witness ==
    /\ sp.phase = "called" /\ sp.id = "X"
    /\ sp.contribs = <<EmptyRecord, [type |-> "record", key |-> "X", val |-> "obj"]>>
    /\ sp.res.status = "ok" /\ sp.res.index = 2

\* The provider [{}, {}] failed for X.
C20_WitnessNone ==
    /\ sp.phase = "called" /\ sp.id = "X"
    /\ sp.contribs = <<EmptyRecord, EmptyRecord>>
    /\ sp.res.status = "error"

\* C35: a contribution that throws while it is consulted is skipped: the
\* contributions after it are still consulted in order, the first one after
\* it that yields a service wins, and the caller sees a service or the
\* not-found error, never the error the contribution threw.
C35_ThrowingContributionSkipped ==
    sp.phase = "called" =>
        /\ sp.res.status \in {"ok", "error"}
        /\ sp.res.status = "error" => sp.res.msg = <<"no service found for", sp.id>>
        /\ \A t \in Answering({"throw"}) :
              /\ (\E w \in Answering({"obj"}) : w > t)
                    => /\ sp.res.status = "ok"
                       /\ sp.res.index = Least(Answering({"obj"}))
              /\ (Answering({"obj"}) = {} \/ Least(Answering({"obj"})) > t)
                    => t \in InvokedSet
        /\ InOrder(sp.res.invoked)

\* The first contribution threw, the second answered undefined and the
\* third one's service was returned.
C35_Witness ==
    /\ sp.phase = "called" /\ Len(sp.contribs) = 3
    /\ consult(sp.contribs[1], sp.id).val = "throw"
    /\ consult(sp.contribs[2], sp.id) = [called |-> TRUE, val |-> "undefined"]
    /\ sp.res.status = "ok" /\ sp.res.index = 3
    /\ sp.res.invoked = <<1, 2, 3>>

----------------------------------------------------------------------------
(***************************************************************************)
(* Part 3: Router.  DefaultRouter (../../common/routing) is not among the  *)
(* sources; only its uses are (src/unnamed/part_000:68-75, 157-177).  Its  *)
(* listen/route are modelled from the design: handlers are tried in        *)
(* registration order, accept() claims the connection, next() passes on to *)
(* the following handler or to the caller of route(), next(error) aborts   *)
(* the matching and hands the error to the caller, and an error thrown by  *)
(* a handler is caught at this boundary and turned into next(error).       *)
(*                                                                         *)
(* A handler is described by what it does for each path it is given.       *)
(***************************************************************************)
MaxRoutes == 3

Paths == {"a", "b"}

Acts == {"accept", "next", "error", "throw"}

Handlers == [Paths -> Acts]

\* route(params, accept, next) from handler i on; inv lists the handlers
\* invoked so far.  outcome "accepted": accept() was called by handler `by`;
\* "declined": the caller's next() was called without error; "error": the
\* caller's next(error) was called.
RECURSIVE routeFrom(_, _, _, _)
routeFrom(hs, path, i, inv) ==
    IF i > Len(hs)
    THEN [outcome |-> "declined", by |-> 0, accepts |-> 0, err |-> "none",
          invoked |-> inv]
    ELSE LET act == hs[i][path]
             inv2 == Append(inv, i)
         IN  CASE act = "accept" ->
                    [outcome |-> "accepted", by |-> i, accepts |-> 1,
                     err |-> "none", invoked |-> inv2]
               [] act = "error" ->
                    [outcome |-> "error", by |-> i, accepts |-> 0,
                     err |-> "passed", invoked |-> inv2]
               [] act = "throw" ->
                    [outcome |-> "error", by |-> i, accepts |-> 0,
                     err |-> "thrown", invoked |-> inv2]
               [] OTHER -> routeFrom(hs, path, i + 1, inv2)

\* A router that goes on to the following handler after next(error).
RECURSIVE routeIgnoringErrors(_, _, _, _)
routeIgnoringErrors(hs, path, i, inv) ==
    IF i > Len(hs)
    THEN [outcome |-> "declined", by |-> 0, accepts |-> 0, err |-> "none",
          invoked |-> inv]
    ELSE IF hs[i][path] = "accept"
         THEN [outcome |-> "accepted", by |-> i, accepts |-> 1,
               err |-> "none", invoked |-> Append(inv, i)]
         ELSE routeIgnoringErrors(hs, path, i + 1, Append(inv, i))

route_IgnoringErrors(hs, path) == routeIgnoringErrors(hs, path, 1, <<>>)

\* A router that offers the connection to every handler and lets the last
\* accepting one have it.
route_LastWins(hs, path) ==
    LET acc == {i \in 1..Len(hs) : hs[i][path] = "accept"}
        all == [i \in 1..Len(hs) |-> i]
    IN  IF acc = {}
        THEN routeFrom(hs, path, 1, <<>>)
        ELSE [outcome |-> "accepted",
              by |-> CHOOSE x \in acc : \A y \in acc : y <= x,
              accepts |-> Cardinality(acc), err |-> "none", invoked |-> all]

\* Router.route(params, accept, next).
route(hs, path) == routeFrom(hs, path, 1, <<>>)

\* Router.listen(handler).
listen(hs, h) == Append(hs, h)

NotRouted ==
    [outcome |-> "none", by |-> 0, accepts |-> 0, err |-> "none",
     invoked |-> <<>>]

InitRouter ==
    /\ rc = Unused /\ sp = Unused /\ ms = Unused /\ svc = Unused /\ rpc = Unused /\ srv = Unused
    /\ rh = Unused /\ cr = Unused /\ ag = Unused /\ mux = Unused
    /\ router = [handlers |-> <<>>, path |-> "a", res |-> NotRouted]

Listen(h) ==
    /\ Len(router.handlers) < MaxRoutes
    /\ router' = [router EXCEPT !.handlers = listen(@, h), !.res = NotRouted]
    /\ UNCHANGED <<rc, sp, ms, svc, rpc, srv, rh, cr, ag, mux>>

Route(path) ==
    /\ router' = [router EXCEPT !.path = path,
                                !.res = route(router.handlers, path)]
    /\ UNCHANGED <<rc, sp, ms, svc, rpc, srv, rh, cr, ag, mux>>

NextRouter ==
    \/ \E h \in Handlers : Listen(h)
    \/ \E path \in Paths : Route(path)

SpecRouter == InitRouter /\ [][NextRouter]_vars

UpTo(n) == [i \in 1..n |-> i]

\* The first handler, in registration order, that does not call next() for
\* the routed path; 0 when every handler calls next().
Decider ==
    LET d == {i \in 1..Len(router.handlers) :
                 router.handlers[i][router.path] # "next"}
    IN  IF d = {} THEN 0 ELSE CHOOSE x \in d : \A y \in d : x <= y

Routed == router.res.outcome # "none"

\* C15: handlers are tried in registration order and the first one that
\* accepts wins: when the handlers before B all call next() and B accepts,
\* the connection is accepted by B, exactly once, and no handler registered
\* after B is invoked.
C15_FirstAcceptWins ==
    (Routed /\ Decider # 0
       /\ router.handlers[Decider][router.path] = "accept") =>
        /\ router.res.outcome = "accepted"
        /\ router.res.by = Decider
        /\ router.res.accepts = 1
        /\ router.res.invoked = UpTo(Decider)

\* C15 witness: A calls next(), B accepts, C would accept too and is not
\* invoked.
C15_Witness ==
    /\ Routed /\ Len(router.handlers) = 3
    /\ router.handlers[1][router.path] = "next"
    /\ router.handlers[2][router.path] = "accept"
    /\ router.handlers[3][router.path] = "accept"
    /\ router.res.by = 2 /\ router.res.invoked = <<1, 2>>

\* C16: when a handler calls next(error) no later handler is invoked and the
\* error reaches the caller of route(); when every handler calls next()
\* without error the caller's next() is reached without error and the
\* connection is never accepted.
C16_NextErrorAborts ==
    Routed =>
        /\ (Decider # 0 /\ router.handlers[Decider][router.path] = "error")
              => /\ router.res.outcome = "error"
                 /\ router.res.err = "passed"
                 /\ router.res.accepts = 0
                 /\ router.res.invoked = UpTo(Decider)
        /\ Decider = 0
              => /\ router.res.outcome = "declined"
                 /\ router.res.err = "none"
                 /\ router.res.accepts = 0
                 /\ router.res.invoked = UpTo(Len(router.handlers))

\* C16 witness: the second handler called next(error) and a third handler
\* that would have accepted was not invoked.
C16_Witness ==
    /\ Routed /\ Len(router.handlers) = 3
    /\ router.handlers[1][router.path] = "next"
    /\ router.handlers[2][router.path] = "error"
    /\ router.handlers[3][router.path] = "accept"
    /\ router.res.outcome = "error" /\ router.res.invoked = <<1, 2>>

----------------------------------------------------------------------------
(***************************************************************************)
(* Part 4: the messaging backend (src/unnamed/part_000).                   *)
(*                                                                         *)
(* The outer ConnectionRouter has one handler (lines 162-173): it looks up *)
(* or creates the container scope of the frontend and routes the request   *)
(* in the scope's own ConnectionRouter, whose handlers are, in binding     *)
(* order, the backend-proxying handler (lines 101-104, 228-245) and the    *)
(* JSON-RPC handler (lines 106-130).                                       *)
(*                                                                         *)
(* DefaultContainerScopeRegistry (../../common/container-scope) is not     *)
(* among the sources.  getOrCreateScope is modelled from the design: per   *)
(* key absent -> creating -> ready -> (disposing) -> absent, an Rc-wrapped *)
(* scope, a fresh reference on creation and a clone afterwards.  While a   *)
(* scope is being created its "scope ready" callbacks run; they are        *)
(* foreign code and may ask for the scope of the same key again.           *)
(***************************************************************************)
\* References handed out per scope, and scopes built per key.
MaxRefs == 3
MaxBuilds == 2

Keys == {"f1"}

\* Paths of inbound requests: the backend-proxying route, the JSON-RPC route
\* of a service that exists (X) and of one that does not (Y), a path no
\* handler knows, and a request without a string path.
MsPaths == {"proxy", "svcX", "svcY", "other", "nopath"}

\* JSON_RPC_ROUTE.match(path), line 115: the serviceId, or "none".
jsonRpcServiceId(path) ==
    CASE path = "svcX" -> "X"
      [] path = "svcY" -> "Y"
      [] OTHER -> "none"

\* The service contributions of a scope: records keyed by service path, as
\* in src/packages/terminal/src/node/terminal-backend-module.ts lines 42-51.
ScopeContribs == <<EmptyRecord, [type |-> "record", key |-> "X", val |-> "obj"]>>

\* The backend-proxying handler, lines 229-244, on a provider whose deferred
\* connection is resolved or not.
proxyHandler_NoCheck(resolved) ==
    [p \in MsPaths |-> IF p = "proxy" THEN "accept" ELSE "next"]

proxyHandler(resolved) ==
    [p \in MsPaths |->
        IF p = "nopath" THEN "next"
        ELSE IF p # "proxy" THEN "next"
        ELSE IF resolved THEN "error"
        ELSE "accept"]

\* The JSON-RPC handler, lines 111-127.  getService throws when no service is
\* found, and nothing in the handler catches it.
jsonRpcHandler(contribs) ==
    [p \in MsPaths |->
        IF p = "nopath" THEN "next"
        ELSE IF jsonRpcServiceId(p) = "none" THEN "next"
        ELSE LET r == getService(contribs, jsonRpcServiceId(p))
             IN  IF r.status = "error" THEN "throw"
                 ELSE IF ~truthy(r.val) THEN "next"
                 ELSE "accept"]

\* The scope's ConnectionRouter, lines 68-75: the handlers in binding order.
scopedHandlers(resolved) ==
    listen(listen(<<>>, proxyHandler(resolved)), jsonRpcHandler(ScopeContribs))

AbsentScope ==
    [state |-> "absent", rc |-> Unused, resolved |-> FALSE, proxyAccepts |-> 0,
     role |-> [h \in Handles |-> "none"]]

\* containerFactory, lines 181-186, and the Rc around the new scope.
newScope ==
    [state |-> "creating", rc |-> New(FALSE), resolved |-> FALSE,
     proxyAccepts |-> 0,
     role |-> [h \in Handles |-> IF h = 1 THEN "pending" ELSE "none"]]

\* The references handed out for a scope so far.
Refs(sc) == Cardinality({h \in Handles : sc.role[h] # "none"})

NextHandle(sc) == CHOOSE x \in FreeHandles(sc.rc) : \A y \in FreeHandles(sc.rc) : x <= y

\* getOrCreateScope(key) on a scope that exists (being created or ready): a
\* clone of its Rc, given to a holder of the given role.
cloneScope(sc, role) ==
    LET n == NextHandle(sc)
    IN  [sc EXCEPT !.rc = clone(@, 1, n), !.role[n] = role]

\* A registry that builds a scope again when asked while one is being
\* created.
getOrCreateScope_Rebuild(sc, role) ==
    IF sc.state = "ready" THEN cloneScope(sc, role) ELSE newScope

\* getOrCreateScope(key): the scope record afterwards.
getOrCreateScope(sc, role) ==
    IF sc.state = "absent" THEN newScope ELSE cloneScope(sc, role)

\* A registry that keeps a scope whose last reference was disposed.
releaseScope_Keep(sc, h, role) ==
    LET d == dispose(sc.rc, h)
        r == IF Top(d) = "fire" THEN disposeRefTail(Pop(d)) ELSE d
    IN  [sc EXCEPT !.rc = r, !.role[h] = role]

\* scope.dispose() on reference h: the Rc's dispose(); when the count
\* reaches zero the registry forgets the scope during the will-dispose
\* event and the scope (its container) is disposed.
releaseScope(sc, h, role) ==
    LET d == dispose(sc.rc, h)
        r == IF Top(d) = "fire" THEN disposeRefTail(Pop(d)) ELSE d
    IN  IF r.ref
        THEN [sc EXCEPT !.rc = r, !.role[h] = role]
        ELSE AbsentScope

\* Lines 168-172: the request is routed in the scope with reference h; the
\* accept function passed on attaches scope.dispose() to the connection's
\* close event, and `next` is passed on as it is.
dispatch(sc, path, h) ==
    LET res == route(scopedHandlers(sc.resolved), path)
    IN  IF res.outcome = "accepted"
        THEN [scope |-> [sc EXCEPT !.role[h] = "open",
                                   !.resolved = @ \/ res.by = 1,
                                   !.proxyAccepts = @ + (IF res.by = 1 THEN 1 ELSE 0)],
              res |-> res]
        ELSE [scope |-> [sc EXCEPT !.role[h] = "declined"], res |-> res]

NoRequest == [key |-> "none", path |-> "nopath", res |-> NotRouted]

InitMs ==
    /\ rc = Unused /\ sp = Unused /\ router = Unused /\ svc = Unused /\ rpc = Unused /\ srv = Unused
    /\ rh = Unused /\ cr = Unused /\ ag = Unused /\ mux = Unused
    /\ ms = [scopes |-> [k \in Keys |-> AbsentScope],
             built |-> [k \in Keys |-> 0],
             pend |-> NoRequest,
             last |-> NoRequest,
             threw |-> FALSE]

Quiet == ms.pend.key = "none"

Finish(m, k, path, d) ==
    [m EXCEPT !.scopes[k] = d.scope,
              !.pend = NoRequest,
              !.last = [key |-> k, path |-> path, res |-> d.res],
              !.threw = @ \/ d.res.err = "thrown"]

\* A request without frontendId, lines 163-165: next().
ArriveAnonymous(path) ==
    /\ Quiet
    /\ ms' = [ms EXCEPT !.last = [key |-> "none", path |-> path,
                                  res |-> route(<<>>, path)]]
    /\ UNCHANGED <<rc, sp, router, svc, rpc, srv, rh, cr, ag, mux>>

\* A request of frontend k whose scope exists, lines 166-172.
Arrive(k, path) ==
    /\ Quiet
    /\ ms.scopes[k].state = "ready"
    /\ Refs(ms.scopes[k]) < MaxRefs
    /\ LET sc == getOrCreateScope(ms.scopes[k], "pending")
           h == NextHandle(ms.scopes[k])
       IN  ms' = Finish(ms, k, path, dispatch(sc, path, h))
    /\ UNCHANGED <<rc, sp, router, svc, rpc, srv, rh, cr, ag, mux>>

\* A request of frontend k without a scope, line 166: the scope is built and
\* its ready callbacks start to run.
ArriveFirst(k, path) ==
    /\ Quiet
    /\ ms.scopes[k].state = "absent"
    /\ ms.built[k] < MaxBuilds
    /\ ms' = [ms EXCEPT !.scopes[k] = getOrCreateScope(@, "pending"),
                        !.built[k] = @ + 1,
                        !.pend = [key |-> k, path |-> path, res |-> NotRouted]]
    /\ UNCHANGED <<rc, sp, router, svc, rpc, srv, rh, cr, ag, mux>>

\* A ready callback asks for the scope that is being created.
ReentrantGet ==
    /\ ~Quiet
    /\ LET k == ms.pend.key
           before == ms.scopes[k]
           after == getOrCreateScope(before, "held")
       IN  /\ Refs(before) < MaxRefs
           /\ ms' = [ms EXCEPT !.scopes[k] = after,
                               !.built[k] = IF after.rc.count > before.rc.count
                                            THEN @ ELSE @ + 1]
    /\ UNCHANGED <<rc, sp, router, svc, rpc, srv, rh, cr, ag, mux>>

\* The ready callbacks are done: the scope is ready and the request that
\* created it is routed in it, lines 168-172.
Created ==
    /\ ~Quiet
    /\ LET k == ms.pend.key
           sc == [ms.scopes[k] EXCEPT !.state = "ready"]
       IN  ms' = Finish(ms, k, ms.pend.path, dispatch(sc, ms.pend.path, 1))
    /\ UNCHANGED <<rc, sp, router, svc, rpc, srv, rh, cr, ag, mux>>

\* An accepted connection closes: its close listener disposes the scope
\* reference, line 170.
Close(k, h) ==
    /\ Quiet
    /\ ms.scopes[k].state = "ready"
    /\ ms.scopes[k].role[h] = "open"
    /\ LET sc == releaseScope(ms.scopes[k], h, "closed")
       IN  ms' = [ms EXCEPT !.scopes[k] = sc]
    /\ UNCHANGED <<rc, sp, router, svc, rpc, srv, rh, cr, ag, mux>>

\* A ready callback gives back the reference it took.
ReleaseHeld(k, h) ==
    /\ Quiet
    /\ ms.scopes[k].state = "ready"
    /\ ms.scopes[k].role[h] = "held"
    /\ LET sc == releaseScope(ms.scopes[k], h, "released")
       IN  ms' = [ms EXCEPT !.scopes[k] = sc]
    /\ UNCHANGED <<rc, sp, router, svc, rpc, srv, rh, cr, ag, mux>>

NextMs ==
    \/ \E path \in MsPaths : ArriveAnonymous(path)
    \/ \E k \in Keys, path \in MsPaths : Arrive(k, path)
    \/ \E k \in Keys, path \in MsPaths : ArriveFirst(k, path)
    \/ ReentrantGet
    \/ Created
    \/ \E k \in Keys, h \in Handles : Close(k, h)
    \/ \E k \in Keys, h \in Handles : ReleaseHeld(k, h)

SpecMs == InitMs /\ [][NextMs]_vars

(***************************************************************************)
(* Claims about the container scopes of the messaging backend.             *)
(***************************************************************************)
\* The reference count of the scope of key k, zero when there is no scope.
ScopeCount(k) ==
    IF ms.scopes[k].state = "absent" THEN 0 ELSE ms.scopes[k].rc.count

\* The inbound connections attached to the peer: accepted and not closed.
Attached(k) == {h \in Handles : ms.scopes[k].role[h] = "open"}

\* The references of the scope held by ready callbacks.
Held(k) == {h \in Handles : ms.scopes[k].role[h] = "held"}

\* C12: for every peer key, whenever no request is being handled (and no
\* ready callback holds a reference of its own), the scope's reference count
\* equals the number of inbound connections attached to the peer, and with
\* no connection attached the count is zero and the scope is torn down.
C12_CountIsAttachedConnections ==
    \A k \in Keys :
        (Quiet /\ Held(k) = {}) =>
            /\ ScopeCount(k) = Cardinality(Attached(k))
            /\ (Attached(k) = {}) => ms.scopes[k].state = "absent"

\* The requesters that were given a reference of the scope of key k and
\* have not given it back.
Requesters(k) ==
    {h \in Handles : ms.scopes[k].role[h] \in {"pending", "held", "open", "declined"}}

\* C13: getOrCreateScope asked again for a key whose scope is being created
\* does not run the factory again, and every requester, the earlier ones
\* included, holds a live reference of the one scope: the count is the
\* number of requesters.
C13_FactoryRunsOnce ==
    [][\A k \in Keys :
          (ms.scopes[k].state = "creating" /\ ms'.scopes[k].state = "creating")
              => /\ ms'.built[k] = ms.built[k]
                 /\ Requesters(k) \subseteq Requesters(k)'
                 /\ Requesters(k)' = LiveHandles(ms'.scopes[k].rc)
                 /\ ms'.scopes[k].rc.ref
                 /\ ms'.scopes[k].rc.count = Cardinality(Requesters(k)')]_vars

\* Three requesters hold the scope that is still being created, built once.
C13_Witness ==
    \E k \in Keys :
        /\ ms.scopes[k].state = "creating"
        /\ Cardinality(Held(k)) = 2
        /\ ms.built[k] = 1
        /\ ms.scopes[k].rc.count = 3

\* The moves of the state machine of a key.  Disposing is passed through
\* within the dispose() call that releases the last reference.
ScopeMoves ==
    {<<"absent", "creating">>, <<"creating", "creating">>,
     <<"creating", "ready">>, <<"ready", "ready">>, <<"ready", "absent">>,
     <<"absent", "absent">>}

\* C14: per key the scope only moves absent -> creating -> ready ->
\* (disposing) -> absent; an absent key gets a newly built scope and a fresh
\* reference with count 1; a ready key gets a clone, the count one higher
\* and nothing built; the scope goes away only when its last reference is
\* disposed, and a scope the registry hands out is never a disposed one.
C14_ScopeStateMachine ==
    [][\A k \in Keys :
          LET a == ms.scopes[k]
              b == ms'.scopes[k]
          IN  /\ <<a.state, b.state>> \in ScopeMoves
              /\ (a.state = "absent" /\ b.state = "creating")
                    => /\ ms'.built[k] = ms.built[k] + 1
                       /\ b.rc.count = 1
                       /\ LiveHandles(b.rc) = {1}
              /\ (a.state = "ready" /\ b.state = "ready")
                    => /\ ms'.built[k] = ms.built[k]
                       /\ Refs(b) > Refs(a) => b.rc.count = a.rc.count + 1
                       /\ b.rc.count = Cardinality(LiveHandles(b.rc))
              /\ (a.state = "ready" /\ b.state = "absent")
                    => a.rc.count = 1
              /\ b.state # "absent"
                    => /\ b.rc.ref /\ b.rc.resDisposed = 0 /\ b.rc.count >= 1
                       /\ \A h \in Handles :
                             b.role[h] \in {"pending", "held", "open", "declined"}
                                 => ~isDisposed(b.rc, h)]_vars

\* A second scope was built for the key after the first one was torn down,
\* and two connections are attached to it.
C14_Witness ==
    \E k \in Keys :
        /\ ms.built[k] = 2
        /\ ms.scopes[k].state = "ready"
        /\ Cardinality(Attached(k)) = 2
        /\ ms.scopes[k].rc.count = 2

(***************************************************************************)
(* Claims about the handlers of a scope's ConnectionRouter.                *)
(***************************************************************************)
\* The step ends the handling of a request of key k: the outer handler
\* returned for a request that took a reference of the scope.
Handled(k) ==
    /\ ms'.pend = NoRequest
    /\ ms'.last.key = k
    /\ \/ ms.scopes[k].state = "creating"
       \/ Refs(ms'.scopes[k]) > Refs(ms.scopes[k])

\* C17: in one scope at most one connection on the backend-proxying path is
\* ever accepted; once one was accepted every later request on that path,
\* also after the first connection has closed, is not accepted and is
\* answered with next(error).
C17_ProxyingSingleUse ==
    [][\A k \in Keys :
          LET a == ms.scopes[k]
              b == ms'.scopes[k]
          IN  /\ b.proxyAccepts <= 1
              /\ (a.state = "ready" /\ a.resolved /\ b.state # "absent")
                    => b.resolved /\ b.proxyAccepts = a.proxyAccepts
              /\ (Handled(k) /\ ms'.last.path = "proxy")
                    => IF a.resolved
                       THEN /\ ms'.last.res.outcome = "error"
                            /\ ms'.last.res.err = "passed"
                            /\ ms'.last.res.by = 1
                            /\ ms'.last.res.accepts = 0
                            /\ Attached(k)' = Attached(k)
                       ELSE /\ ms'.last.res.outcome = "accepted"
                            /\ ms'.last.res.by = 1
                            /\ b.resolved /\ b.proxyAccepts = 1]_vars

\* A request on the backend-proxying path was refused after the one accepted
\* connection on that path had closed.
C17_Witness ==
    \E k \in Keys :
        /\ Quiet
        /\ ms.last.key = k /\ ms.last.path = "proxy"
        /\ ms.last.res.outcome = "error"
        /\ ms.scopes[k].proxyAccepts = 1
        /\ Attached(k) = {}

\* The request of the given path is on the JSON-RPC route and no
\* contribution of the scope provides its service, so that resolving it
\* raises an error, line 119.
ResolutionFails(path) ==
    /\ jsonRpcServiceId(path) # "none"
    /\ \A i \in 1..Len(ScopeContribs) :
          ~truthy(consult(ScopeContribs[i], jsonRpcServiceId(path)).val)

----------------------------------------------------------------------------
(***************************************************************************)
(* Part 5: services served over JSON-RPC connections and their release     *)
(* (src/unnamed/part_000:111-127, service-provider.ts:178-210).            *)
(*                                                                         *)
(* Each client asks for one connection on a path.  The JSON-RPC handler    *)
(* resolves the service with getService, serves it on the accepted         *)
(* connection and registers the release function of the ServiceResult on   *)
(* the connection's close event.  One contribution hands out a disposable  *)
(* it passed through ServiceLifecycle.track, as the terminals contribution *)
(* of terminal-backend-module.ts lines 45-49 does.                         *)
(***************************************************************************)
MaxClients == 3

Clients == 1..MaxClients

SvcPaths == {"svcT", "svcX", "svcY", "other"}

\* JSON_RPC_ROUTE.match(path).serviceId, line 115; T is the service whose
\* contribution tracks the instance it returns.
serviceIdOf(path) == IF path = "svcT" THEN "T" ELSE jsonRpcServiceId(path)

TrackedIds == {"T"}

SvcContribs ==
    <<[type |-> "record", key |-> "T", val |-> "obj"],
      [type |-> "record", key |-> "X", val |-> "obj"]>>

\* ServiceLifecycleImpl.track, lines 207-209: the disposable is returned and
\* nothing is registered.
track(s) == s

\* The release function of a ServiceResult, line 192: `() => { /* TODO */ }`.
\* Only the fact that client c's function was called is recorded.
releaseFn(s, c) == [s EXCEPT !.releaseCalls[c] = @ + 1]

\* A handler that releases the service as soon as it is served.
handleJsonRpc_ReleaseOnAccept(s, c, path) ==
    LET id == serviceIdOf(path)
        r == getService(SvcContribs, id)
    IN  IF id = "none" THEN [s EXCEPT !.conn[c] = "declined"]
        ELSE IF r.status = "error" THEN [s EXCEPT !.conn[c] = "failed"]
        ELSE releaseFn([s EXCEPT !.conn[c] = "open", !.of[c] = id], c)

\* The JSON-RPC connection handler, lines 111-127, for client c.
handleJsonRpc(s, c, path) ==
    LET id == serviceIdOf(path)
        r == getService(SvcContribs, id)
    IN  IF id = "none" THEN [s EXCEPT !.conn[c] = "declined"]
        ELSE IF r.status = "error" THEN [s EXCEPT !.conn[c] = "failed"]
        ELSE IF ~truthy(r.val) THEN [s EXCEPT !.conn[c] = "declined"]
        ELSE LET a == [s EXCEPT !.conn[c] = "open", !.of[c] = id]
             IN  IF id \in TrackedIds
                 THEN track([a EXCEPT !.created = @ + 1])
                 ELSE a

\* The close event of the served connection, line 126: the release function
\* registered with rpcConnection.onClose(dispose) runs.
closeConn(s, c) == releaseFn([s EXCEPT !.conn[c] = "closed"], c)

InitSvc ==
    /\ rc = Unused /\ sp = Unused /\ router = Unused /\ ms = Unused /\ rpc = Unused /\ srv = Unused
    /\ rh = Unused /\ cr = Unused /\ ag = Unused /\ mux = Unused
    /\ svc = [conn |-> [c \in Clients |-> "none"],
              of |-> [c \in Clients |-> "none"],
              releaseCalls |-> [c \in Clients |-> 0],
              created |-> 0,
              disposed |-> 0]

Connect(c, path) ==
    /\ svc.conn[c] = "none"
    /\ svc' = handleJsonRpc(svc, c, path)
    /\ UNCHANGED <<rc, sp, router, ms, rpc, srv, rh, cr, ag, mux>>

CloseConn(c) ==
    /\ svc.conn[c] = "open"
    /\ svc' = closeConn(svc, c)
    /\ UNCHANGED <<rc, sp, router, ms, rpc, srv, rh, cr, ag, mux>>

NextSvc ==
    \/ \E c \in Clients, path \in SvcPaths : Connect(c, path)
    \/ \E c \in Clients : CloseConn(c)

SpecSvc == InitSvc /\ [][NextSvc]_vars

\* The clients that obtained the tracked service, and those still using it.
Obtained == {c \in Clients : svc.of[c] \in TrackedIds}
Using == {c \in Obtained : svc.conn[c] = "open"}

\* C21: the disposable passed through ServiceLifecycle.track is disposed once
\* every client that obtained the service has released it, and not while a
\* client still uses it.
C21_TrackedDisposedAfterLastRelease ==
    /\ (Obtained # {} /\ Using = {}) => svc.disposed = svc.created
    /\ Using # {} => svc.disposed < svc.created

\* C22: the release function of an accepted JSON-RPC connection has been
\* called once if the connection has closed and not at all otherwise; the
\* function of a declined or failed request is never called.
C22_ReleasedOnceOnClose ==
    \A c \in Clients :
        svc.releaseCalls[c] = IF svc.conn[c] = "closed" THEN 1 ELSE 0

\* One connection was served and closed, another is still open and a third
\* request was declined.
C22_Witness ==
    \E c, d, e \in Clients :
        /\ svc.conn[c] = "closed" /\ svc.releaseCalls[c] = 1
        /\ svc.conn[d] = "open" /\ svc.releaseCalls[d] = 0
        /\ svc.conn[e] \in {"declined", "failed"} /\ svc.releaseCalls[e] = 0

----------------------------------------------------------------------------
(***************************************************************************)
(* Part 6: the proxy of DefaultRpc.createProxy                             *)
(* (src/packages/core/src/common/rpc.ts:112-116, 180-229).                 *)
(*                                                                         *)
(* RpcConnection is an interface (lines 35-45); no implementation of it is *)
(* among the sources.  The connection is modelled from the design: it is   *)
(* open or closed, requests get ids in the order they are sent and stay    *)
(* pending until the correlated response arrives or the connection closes, *)
(* a response for an id that is not pending is ignored, and the close      *)
(* event is delivered once.  Emitter (./event) and Reflection.isEventName  *)
(* are not among the sources either.                                       *)
(***************************************************************************)
MaxRequests == 2

Methods == {"m", "n"}
Events == {"onA", "onB"}

\* The properties a caller may index the proxy with; "symbol" stands for a
\* property that is not a string.
Props == Methods \cup Events \cup {"dispose", "symbol"}

ArgLists == {<<>>, <<1, 2>>}

Subscribers == {1, 2}

\* Reflection.isEventName(property), line 209.
isEventName(p) == p \in Events

\* Objects handed out for a property are numbered per property, from 1 on;
\* this is the function the constructor puts in the cache, line 189.
DisposeObj == 1

NoCall == [op |-> "none", prop |-> "none", res |-> "ok", obj |-> 0, args |-> <<>>]

\* new RpcProxyHandler(rpcConnection, reflection), lines 182-200.
newProxy ==
    [open |-> TRUE, closeCalls |-> 0, closePending |-> FALSE,
     disposed |-> FALSE,
     cache |-> [p \in Props |-> IF p = "dispose" THEN DisposeObj ELSE 0],
     made |-> [p \in Props |-> IF p = "dispose" THEN DisposeObj ELSE 0],
     emitters |-> {},
     subs |-> {},
     reqs |-> <<>>,
     heldDispose |-> FALSE,
     gone |-> {},
     dropped |-> {},
     delivered |-> [x \in Events \X Subscribers |-> 0],
     last |-> NoCall]

\* RpcConnection.sendRequest(method, params): the request gets the next id
\* and is pending; on a closed connection it is rejected at once.
sendRequest(s, method, params) ==
    [s EXCEPT !.reqs = Append(@, [method |-> method, params |-> params,
                                  status |-> IF s.open THEN "pending" ELSE "closed",
                                  settles |-> IF s.open THEN 0 ELSE 1])]

\* A connection that forgets its pending requests when it closes.
rejectPending_Forget(s) == s

\* The pending requests of a closing connection are rejected with a
\* connection-closed error.
rejectPending(s) ==
    [s EXCEPT !.reqs = [i \in DOMAIN @ |->
                           IF @[i].status = "pending"
                           THEN [@[i] EXCEPT !.status = "closed", !.settles = @ + 1]
                           ELSE @[i]]]

\* A response with the given id arrives: it settles the pending request of
\* that id; a response for any other id is ignored.
handleResponse(s, id, kind) ==
    IF s.open /\ id \in DOMAIN s.reqs /\ s.reqs[id].status = "pending"
    THEN [s EXCEPT !.reqs[id].status = kind, !.reqs[id].settles = @ + 1]
    ELSE s

\* A dispose() that leaves the emitters and their listeners alone.
proxyDispose_KeepEmitters(s) ==
    [s EXCEPT !.disposed = TRUE, !.cache = [p \in Props |-> 0]]

\* RpcProxyHandler.dispose(), lines 223-228.  Emitter.dispose() drops the
\* listeners of the emitter.
proxyDispose(s) ==
    [s EXCEPT !.disposed = TRUE,
              !.subs = {},
              !.gone = {},
              !.emitters = {},
              !.cache = [p \in Props |-> 0]]

\* RpcConnection.close() on the proxy's connection: counted, and an open
\* connection closes; its close event is then due.
rpcClose(s) ==
    LET c == [s EXCEPT !.closeCalls = @ + 1]
    IN  IF c.open
        THEN rejectPending([c EXCEPT !.open = FALSE, !.closePending = TRUE])
        ELSE c

\* A cached dispose function without the disposed test.
disposeProperty_NoGuard(s) == rpcClose([s EXCEPT !.disposed = TRUE])

\* The function cached under 'dispose', lines 189-194.
disposeProperty(s) ==
    IF ~s.disposed
    THEN rpcClose([s EXCEPT !.disposed = TRUE])
    ELSE s

\* A get that does not look at the disposed flag.
proxyGet_NoDisposedCheck(s, p) ==
    IF p = "symbol"
    THEN [s EXCEPT !.last = [op |-> "get", prop |-> p, res |-> "notstring", obj |-> 0, args |-> <<>>]]
    ELSE IF s.cache[p] # 0
    THEN [s EXCEPT !.last = [op |-> "get", prop |-> p, res |-> "ok", obj |-> s.cache[p], args |-> <<>>]]
    ELSE [s EXCEPT !.made[p] = @ + 1, !.cache[p] = s.made[p] + 1,
                   !.emitters = IF isEventName(p) THEN @ \cup {p} ELSE @,
                   !.last = [op |-> "get", prop |-> p, res |-> "ok", obj |-> s.made[p] + 1, args |-> <<>>]]

\* RpcProxyHandler.get(target, property), lines 202-221; last.obj is the
\* object returned, last.res the error thrown.
proxyGet(s, p) ==
    IF s.disposed
    THEN [s EXCEPT !.last = [op |-> "get", prop |-> p, res |-> "invalid", obj |-> 0, args |-> <<>>]]
    ELSE IF p = "symbol"
    THEN [s EXCEPT !.last = [op |-> "get", prop |-> p, res |-> "notstring", obj |-> 0, args |-> <<>>]]
    ELSE IF s.cache[p] # 0
    THEN [s EXCEPT !.last = [op |-> "get", prop |-> p, res |-> "ok", obj |-> s.cache[p], args |-> <<>>]]
    ELSE [s EXCEPT !.made[p] = @ + 1, !.cache[p] = s.made[p] + 1,
                   !.emitters = IF isEventName(p) THEN @ \cup {p} ELSE @,
                   !.last = [op |-> "get", prop |-> p, res |-> "ok", obj |-> s.made[p] + 1, args |-> <<>>]]

\* A method function that sends its request twice.
proxyCall_Twice(s, m, params) ==
    LET g == proxyGet(s, m)
    IN  IF g.last.res # "ok" THEN [g EXCEPT !.last.op = "call", !.last.args = params]
        ELSE sendRequest(sendRequest([g EXCEPT !.last.op = "call", !.last.args = params],
                                     m, params), m, params)

\* proxy.m(...params): the property is read and the function it yields,
\* line 214, is called.
proxyCall(s, m, params) ==
    LET g == proxyGet(s, m)
    IN  IF g.last.res # "ok" THEN [g EXCEPT !.last.op = "call", !.last.args = params]
        ELSE sendRequest([g EXCEPT !.last.op = "call", !.last.args = params], m, params)

InitProxy ==
    /\ rc = Unused /\ sp = Unused /\ router = Unused /\ ms = Unused
    /\ svc = Unused /\ srv = Unused
    /\ rh = Unused /\ cr = Unused /\ ag = Unused /\ mux = Unused
    /\ rpc = newProxy

\* The caller reads a property of the proxy.
Get(p) ==
    /\ rpc' = [proxyGet(rpc, p) EXCEPT
                  !.heldDispose = @ \/ (p = "dispose" /\ ~rpc.disposed)]
    /\ UNCHANGED <<rc, sp, router, ms, svc, srv, rh, cr, ag, mux>>

\* The caller calls a method of the proxy.
Call(m, params) ==
    /\ Len(rpc.reqs) < MaxRequests
    /\ rpc' = proxyCall(rpc, m, params)
    /\ UNCHANGED <<rc, sp, router, ms, svc, srv, rh, cr, ag, mux>>

\* The caller calls the dispose function it read from the proxy.
InvokeDispose ==
    /\ rpc.heldDispose
    /\ rpc' = [disposeProperty(rpc) EXCEPT
                  !.last = [op |-> "dispose", prop |-> "dispose", res |-> "ok", obj |-> 0, args |-> <<>>]]
    /\ UNCHANGED <<rc, sp, router, ms, svc, srv, rh, cr, ag, mux>>

\* The close event of a connection closed from this end is delivered,
\* line 199.
CloseEvent ==
    /\ rpc.closePending
    /\ rpc' = [proxyDispose(rpc) EXCEPT !.closePending = FALSE,
                  !.last = [op |-> "closed", prop |-> "none", res |-> "ok", obj |-> 0, args |-> <<>>]]
    /\ UNCHANGED <<rc, sp, router, ms, svc, srv, rh, cr, ag, mux>>

\* The connection reports that it was closed from the other end.
RemoteClose ==
    /\ rpc.open
    /\ rpc' = [proxyDispose(rejectPending([rpc EXCEPT !.open = FALSE])) EXCEPT
                  !.last = [op |-> "closed", prop |-> "none", res |-> "ok", obj |-> 0, args |-> <<>>]]
    /\ UNCHANGED <<rc, sp, router, ms, svc, srv, rh, cr, ag, mux>>

\* A response arrives, for a request that is pending or for any other id.
Respond(id, kind) ==
    /\ rpc' = [handleResponse(rpc, id, kind) EXCEPT
                  !.last = [op |-> "response", prop |-> "none", res |-> kind,
                            obj |-> id, args |-> <<>>]]
    /\ UNCHANGED <<rc, sp, router, ms, svc, srv, rh, cr, ag, mux>>

NextProxy ==
    \/ \E p \in Props : Get(p)
    \/ \E m \in Methods, params \in ArgLists : Call(m, params)
    \/ InvokeDispose
    \/ CloseEvent
    \/ RemoteClose
    \/ \E id \in 1..(MaxRequests + 1), kind \in {"result", "error"} : Respond(id, kind)

SpecProxy == InitProxy /\ [][NextProxy]_vars

(***************************************************************************)
(* Claims about the proxy.                                                 *)
(***************************************************************************)
\* The step is a successful proxy.m(...) call.
Called == rpc'.last.op = "call" /\ rpc'.last.res = "ok" /\ rpc' # rpc

\* The step is the arrival of a response for a request that was pending.
Answered ==
    /\ rpc'.last.op = "response" /\ rpc' # rpc
    /\ rpc'.last.obj \in DOMAIN rpc.reqs
    /\ rpc.reqs[rpc'.last.obj].status = "pending"

\* C23: each call proxy.m(a1..an) issues exactly one request, with method m
\* and params [a1..an]; the request settles with the result or the error of
\* the response carrying its id; and reading a property again while the
\* proxy is valid yields the object that was returned before.
C23_OneRequestPerCall ==
    [][/\ Called =>
            /\ Len(rpc'.reqs) = Len(rpc.reqs) + 1
            /\ SubSeq(rpc'.reqs, 1, Len(rpc.reqs)) = rpc.reqs
            /\ rpc'.reqs[Len(rpc'.reqs)] =
                  [method |-> rpc'.last.prop, params |-> rpc'.last.args,
                   status |-> "pending", settles |-> 0]
       /\ Answered =>
            /\ rpc'.reqs[rpc'.last.obj].status = rpc'.last.res
            /\ \A i \in DOMAIN rpc.reqs :
                  i # rpc'.last.obj => rpc'.reqs[i] = rpc.reqs[i]
       /\ (rpc'.last.op \in {"get", "call"} /\ rpc'.last.res = "ok"
             /\ rpc.cache[rpc'.last.prop] # 0)
            => /\ rpc'.last.obj = rpc.cache[rpc'.last.prop]
               /\ rpc'.made = rpc.made
       /\ \A p \in Props : rpc'.made[p] <= 1]_vars

\* m was called twice through one function object; m(1, 2) got a result
\* and the other call an error.
C23_Witness ==
    /\ Len(rpc.reqs) = 2
    /\ rpc.reqs[1] = [method |-> "m", params |-> <<1, 2>>,
                      status |-> "result", settles |-> 1]
    /\ rpc.reqs[2].method = "m" /\ rpc.reqs[2].status = "error"
    /\ rpc.made["m"] = 1

\* C24: whatever dispose invocations and close events happen, the proxy
\* calls close() on its connection at most once; invoking dispose sends no
\* request; and the first dispose invocation on an open connection has
\* closed the connection when it returns.
C24_ClosesAtMostOnce ==
    [][/\ rpc'.closeCalls <= 1
       /\ \A i \in DOMAIN rpc'.reqs : rpc'.reqs[i].method # "dispose"
       /\ rpc'.last.op = "dispose"
            => /\ Len(rpc'.reqs) = Len(rpc.reqs)
               /\ (rpc.open /\ ~rpc.disposed)
                     => /\ ~rpc'.open
                        /\ rpc'.disposed
                        /\ rpc'.closeCalls = 1
               /\ ~rpc.open => rpc'.closeCalls = rpc.closeCalls]_vars

\* dispose was invoked again after the close event of the connection it had
\* closed was delivered: still one close() call.
C24_Witness ==
    /\ rpc.last.op = "dispose"
    /\ rpc.closeCalls = 1
    /\ ~rpc.open /\ ~rpc.closePending

\* C25: once the connection of the proxy has closed, by proxy.dispose or by
\* a close the connection reported, reading any property of the proxy,
\* 'dispose' included, throws the invalid-proxy error, returns no object and
\* sends nothing.
C25_InvalidAfterClose ==
    [][(~rpc.open /\ rpc'.last.op \in {"get", "call"})
          => /\ rpc'.last.res = "invalid"
             /\ rpc'.last.obj = 0
             /\ rpc'.reqs = rpc.reqs
             /\ rpc'.cache = rpc.cache
             /\ rpc'.made = rpc.made]_vars

\* 'dispose' was read from the proxy after the connection had reported its
\* close, and the read failed.
C25_Witness ==
    /\ ~rpc.open /\ rpc.closeCalls = 0
    /\ rpc.last = [op |-> "get", prop |-> "dispose", res |-> "invalid",
                   obj |-> 0, args |-> <<>>]

----------------------------------------------------------------------------
(***************************************************************************)
(* The events of a proxy: subscriptions and incoming notifications         *)
(* (rpc.ts:196-198, 209-212).  Emitter is modelled from the design: every  *)
(* listener of an emitter receives each value fired, until the             *)
(* subscription or the emitter is disposed.                                *)
(***************************************************************************)
\* An emitter that fires at every emitter of the proxy.
handleNotification_Broadcast(s, name) ==
    [s EXCEPT !.delivered = [x \in Events \X Subscribers |->
                                IF x \in s.subs THEN 1 ELSE 0],
              !.last = [op |-> "notify", prop |-> name, res |-> "ok",
                        obj |-> 0, args |-> <<>>]]

\* A handler that makes the emitter of a name it has no emitter for.
handleNotification_MakeEmitter(s, name) ==
    [s EXCEPT !.delivered = [x \in Events \X Subscribers |->
                                IF x[1] = name /\ x \in s.subs THEN 1 ELSE 0],
              !.emitters = @ \cup {name},
              !.dropped = IF name \in s.emitters THEN @ ELSE @ \cup {name},
              !.last = [op |-> "notify", prop |-> name, res |-> "ok",
                        obj |-> 0, args |-> <<>>]]

\* The notification handler, lines 196-198:
\* this.emitters.get(eventName)?.fire(params[0]).  dropped remembers the
\* names for which there was no emitter to fire.
handleNotification(s, name) ==
    [s EXCEPT !.delivered = [x \in Events \X Subscribers |->
                                IF name \in s.emitters /\ x[1] = name /\ x \in s.subs
                                THEN 1 ELSE 0],
              !.dropped = IF name \in s.emitters THEN @ ELSE @ \cup {name},
              !.last = [op |-> "notify", prop |-> name, res |-> "ok",
                        obj |-> 0, args |-> <<>>]]

\* proxy.onX(listener): the event is read from the proxy and the listener
\* is added to it.
subscribe(s, e, l) ==
    LET g == proxyGet(s, e)
    IN  IF g.last.res # "ok" THEN [g EXCEPT !.last.op = "subscribe"]
        ELSE [g EXCEPT !.last.op = "subscribe",
                       !.subs = @ \cup {<<e, l>>},
                       !.gone = @ \ {<<e, l>>}]

\* The Disposable a subscription returned is disposed.
unsubscribe(s, e, l) ==
    [s EXCEPT !.subs = @ \ {<<e, l>>}, !.gone = @ \cup {<<e, l>>},
              !.last = [op |-> "unsubscribe", prop |-> e, res |-> "ok",
                        obj |-> 0, args |-> <<>>]]

Subscribe(e, l) ==
    /\ <<e, l>> \notin rpc.subs
    /\ rpc' = subscribe(rpc, e, l)
    /\ UNCHANGED <<rc, sp, router, ms, svc, srv, rh, cr, ag, mux>>

Unsubscribe(e, l) ==
    /\ <<e, l>> \in rpc.subs
    /\ rpc' = unsubscribe(rpc, e, l)
    /\ UNCHANGED <<rc, sp, router, ms, svc, srv, rh, cr, ag, mux>>

\* The notification handler is called with a notification, be the
\* connection open or not.
Notify(name) ==
    /\ rpc' = handleNotification(rpc, name)
    /\ UNCHANGED <<rc, sp, router, ms, svc, srv, rh, cr, ag, mux>>

NextProxyEvents ==
    \/ \E e \in Events, l \in Subscribers : Subscribe(e, l)
    \/ \E e \in Events, l \in Subscribers : Unsubscribe(e, l)
    \/ \E name \in Events \cup Methods : Notify(name)
    \/ RemoteClose
    \/ Get("dispose")
    \/ InvokeDispose
    \/ CloseEvent

SpecProxyEvents == InitProxy /\ [][NextProxyEvents]_vars

\* C26: a notification received for an event name is delivered once to each
\* subscriber subscribed to that event at that moment and to nobody else:
\* not to the subscribers of another event and not to a subscriber whose
\* subscription was disposed.
C26_NotificationFanOut ==
    [][(rpc'.last.op = "notify" /\ rpc.open)
          => \A x \in Events \X Subscribers :
                rpc'.delivered[x] =
                    IF x[1] = rpc'.last.prop /\ x \in rpc.subs THEN 1 ELSE 0]_vars

\* A notification for onA reached subscriber 1 and not subscriber 2, who had
\* disposed its subscription to onA and is subscribed to onB.
C26_Witness ==
    /\ rpc.last.op = "notify" /\ rpc.last.prop = "onA"
    /\ rpc.subs = {<<"onA", 1>>, <<"onB", 2>>}
    /\ <<"onA", 2>> \in rpc.gone
    /\ rpc.delivered[<<"onA", 1>>] = 1
    /\ rpc.delivered[<<"onA", 2>>] = 0
    /\ rpc.delivered[<<"onB", 2>>] = 0

\* C30: every request sent on the connection is pending until it is settled
\* and is settled exactly once, by the response carrying its id or, when the
\* connection closes first, by the connection-closed rejection; a settled
\* request is never settled again, and none is pending once the connection
\* has closed.
C30_SettledExactlyOnce ==
    [][/\ \A i \in DOMAIN rpc'.reqs :
             /\ rpc'.reqs[i].settles = IF rpc'.reqs[i].status = "pending" THEN 0 ELSE 1
             /\ ~rpc'.open => rpc'.reqs[i].status # "pending"
       /\ \A i \in DOMAIN rpc.reqs :
             /\ rpc.reqs[i].status # "pending" => rpc'.reqs[i] = rpc.reqs[i]
             /\ (rpc.reqs[i].status = "pending" /\ rpc'.reqs[i].status \in {"result", "error"})
                   => /\ rpc'.last.op = "response" /\ rpc'.last.obj = i
                      /\ rpc'.last.res = rpc'.reqs[i].status
             /\ (rpc.reqs[i].status = "pending" /\ rpc'.reqs[i].status = "closed")
                   => rpc.open /\ ~rpc'.open]_vars

\* The first request was answered, a second response for it was ignored, and
\* the second request was rejected when the connection closed.
C30_Witness ==
    /\ Len(rpc.reqs) = 2
    /\ rpc.reqs[1].status = "result" /\ rpc.reqs[1].settles = 1
    /\ rpc.reqs[2].status = "closed" /\ rpc.reqs[2].settles = 1
    /\ ~rpc.open
    /\ rpc.last.op = "response" /\ rpc.last.obj = 1 /\ rpc.last.res = "error"

----------------------------------------------------------------------------
(***************************************************************************)
(* Part 7: DefaultRpc.serve (src/packages/core/src/common/rpc.ts:118-126). *)
(*                                                                         *)
(* One server object is served on one RpcConnection.  The connection is    *)
(* modelled from the design: handleRequest registers the request handler   *)
(* of the connection, an incoming request is answered with the value the   *)
(* handler returns or with an error response when it throws or rejects,    *)
(* and the close event reaches every close listener once.                  *)
(***************************************************************************)
MaxServes == 2
MaxIncoming == 2

\* reflection.getEventNames(server), line 121.
SrvEvents == {"onA", "onB"}

\* The methods a request may name: one that returns, one that throws, one
\* that returns a rejected promise, and one the server does not have.
SrvMethods == {"returns", "throws", "rejects", "missing"}

EmitValues == {1, 2}

NoEmit == [event |-> "none", value |-> 0, sent |-> {}, count |-> 0]

\* A served connection before serve is called.
newServed ==
    [open |-> TRUE, serves |-> 0, handlers |-> 0, serveErrors |-> 0,
     subs |-> [e \in SrvEvents |-> 0],
     closeListeners |-> 0,
     answered |-> <<>>,
     emit |-> NoEmit]

\* DefaultRpc.serve(server, rpcConnection), lines 118-126: the request
\* handler is registered (it takes the place of an earlier one), every
\* event of the server gets one more listener, and one more close listener
\* holds the DisposableCollection of these listeners.
serve(s) ==
    [s EXCEPT !.serves = @ + 1,
              !.handlers = 1,
              !.subs = [e \in SrvEvents |-> @[e] + 1],
              !.closeListeners = @ + 1]

\* The request handler of line 119, server[method](...params, token): what
\* the call does.  Calling a method the server does not have is a TypeError.
requestHandler(method) ==
    CASE method = "returns" -> "returned"
      [] method = "rejects" -> "rejected"
      [] OTHER -> "thrown"

\* A connection that closes when its request handler fails.
dispatchRequest_CloseOnError(s, method) ==
    IF requestHandler(method) = "returned"
    THEN [s EXCEPT !.answered = Append(@, [method |-> method, response |-> "result"])]
    ELSE [s EXCEPT !.open = FALSE,
                   !.answered = Append(@, [method |-> method, response |-> "none"])]

\* An incoming request on the served connection: the handler runs and its
\* outcome becomes the response for the id of the request.
dispatchRequest(s, method) ==
    [s EXCEPT !.answered =
        Append(@, [method |-> method,
                   response |-> IF requestHandler(method) = "returned"
                                THEN "result" ELSE "error"])]

\* The server fires event e with value v: every listener serve added runs
\* `rpcConnection.sendNotification(eventName, [value])`, line 123.
emit(s, e, v) ==
    [s EXCEPT !.emit = [event |-> e, value |-> v,
                        sent |-> IF s.subs[e] > 0 THEN {<<e, v>>} ELSE {},
                        count |-> s.subs[e]]]

\* The connection reports closed, line 125: every close listener disposes
\* its DisposableCollection, which removes the listeners it holds.
servedClose(s) ==
    [s EXCEPT !.open = FALSE,
              !.subs = [e \in SrvEvents |-> 0],
              !.closeListeners = 0,
              !.emit = NoEmit]

InitServe ==
    /\ rc = Unused /\ sp = Unused /\ router = Unused /\ ms = Unused
    /\ svc = Unused /\ rpc = Unused
    /\ rh = Unused /\ cr = Unused /\ ag = Unused /\ mux = Unused
    /\ srv = newServed

Serve ==
    /\ srv.open
    /\ srv.serves < MaxServes
    /\ srv' = serve(srv)
    /\ UNCHANGED <<rc, sp, router, ms, svc, rpc, rh, cr, ag, mux>>

Emit(e, v) ==
    /\ srv' = emit(srv, e, v)
    /\ UNCHANGED <<rc, sp, router, ms, svc, rpc, rh, cr, ag, mux>>

Incoming(method) ==
    /\ srv.open
    /\ srv.handlers > 0
    /\ Len(srv.answered) < MaxIncoming
    /\ srv' = dispatchRequest(srv, method)
    /\ UNCHANGED <<rc, sp, router, ms, svc, rpc, rh, cr, ag, mux>>

ServedClose ==
    /\ srv.open
    /\ srv' = servedClose(srv)
    /\ UNCHANGED <<rc, sp, router, ms, svc, rpc, rh, cr, ag, mux>>

NextServe ==
    \/ Serve
    \/ \E e \in SrvEvents, v \in EmitValues : Emit(e, v)
    \/ \E method \in SrvMethods : Incoming(method)
    \/ ServedClose

SpecServe == InitServe /\ [][NextServe]_vars

\* The step is an emission of the server.
Emitted == srv'.emit # NoEmit /\ srv'.emit # srv.emit

\* C27: while the served connection is open every value an event of the
\* server emits produces exactly one notification, named after the event
\* and carrying the value; once the connection has reported closed the
\* listeners serve added are gone and an emission sends nothing.
C27_OneNotificationPerEmission ==
    [][/\ (Emitted /\ srv.open /\ srv.serves > 0)
            => /\ srv'.emit.count = 1
               /\ srv'.emit.sent = {<<srv'.emit.event, srv'.emit.value>>}
       /\ ~srv'.open
            => /\ \A e \in SrvEvents : srv'.subs[e] = 0
               /\ srv'.emit.count = 0]_vars

\* C28: serve called for a pair that is already served reports an error and
\* changes nothing: the request handler, the listeners on the server's
\* events and the close listeners stay as they were, so that an emission
\* still yields one notification.
C28_ServeAgainIsError ==
    [][/\ (srv.serves > 0 /\ srv'.serves + srv'.serveErrors > srv.serves + srv.serveErrors)
            => /\ srv'.serveErrors = srv.serveErrors + 1
               /\ srv'.subs = srv.subs
               /\ srv'.handlers = srv.handlers
               /\ srv'.closeListeners = srv.closeListeners
       /\ (Emitted /\ srv.open /\ srv.serves > 0) => srv'.emit.count = 1]_vars

\* C29: a request whose handler throws or rejects, a request for a method
\* the server does not have included, is answered with an error response;
\* a request whose handler returns gets a result, also after a failed one;
\* nothing of this closes the connection or removes what serve installed.
C29_HandlerErrorIsResponse ==
    [][Len(srv'.answered) > Len(srv.answered)
          => LET r == srv'.answered[Len(srv'.answered)]
             IN  /\ Len(srv'.answered) = Len(srv.answered) + 1
                 /\ r.response = IF r.method = "returns" THEN "result" ELSE "error"
                 /\ srv'.open
                 /\ srv'.subs = srv.subs
                 /\ srv'.handlers = srv.handlers]_vars

\* A request for a method the server does not have got an error response and
\* the next request on the connection got its result.
C29_Witness ==
    /\ srv.open
    /\ Len(srv.answered) = 2
    /\ srv.answered[1] = [method |-> "missing", response |-> "error"]
    /\ srv.answered[2] = [method |-> "returns", response |-> "result"]

\* C37: a notification for a name whose property was not read yet is
\* dropped: nobody receives it and cache, emitters and subscriptions stay as
\* they were; it is not kept for later, a subscription made afterwards
\* delivers nothing.
C37_UnreadEventDropped ==
    [][/\ (rpc'.last.op = "notify" /\ rpc.open /\ rpc'.last.prop \notin rpc.emitters)
            => /\ \A x \in Events \X Subscribers : rpc'.delivered[x] = 0
               /\ rpc'.cache = rpc.cache
               /\ rpc'.made = rpc.made
               /\ rpc'.emitters = rpc.emitters
               /\ rpc'.subs = rpc.subs
               /\ rpc'.reqs = rpc.reqs
       /\ rpc'.last.op = "subscribe" => rpc'.delivered = rpc.delivered]_vars

\* A notification for onA was dropped; subscriber 1 then subscribed to onA
\* and has received nothing.
C37_Witness ==
    /\ "onA" \in rpc.dropped
    /\ rpc.last.op = "subscribe" /\ rpc.last.prop = "onA" /\ rpc.last.res = "ok"
    /\ rpc.subs = {<<"onA", 1>>}
    /\ \A x \in Events \X Subscribers : rpc.delivered[x] = 0

\* The connection has closed and its close event has reached the proxy.
ReportedClosed == ~rpc.open /\ ~rpc.closePending

MaxRouteRequests == 3

\* Route patterns given to createRouteHandler.
RouteSpecs == {"/services/:serviceId", "/backend-proxying/"}

\* The values of params.path when it is a string.
PathStrings == {"/services/a", "/services/b", "/backend-proxying/", "/other"}

\* The params of a request: a path of some type and one more property.
RouteParams ==
    [pathType : {"string"}, path : PathStrings, extra : {"x", "y"}]
        \cup [pathType : {"number"}, path : {"7"}, extra : {"x", "y"}]
        \cup [pathType : {"undefined"}, path : {""}, extra : {"x", "y"}]

\* What the wrapped handler does with the callbacks it is given.
WrappedBehaviours == {"accept", "next", "error", "none"}

\* Route.match of route-parser: the parameters of the match, or false.
NoMatch == [matched |-> FALSE, serviceId |-> ""]
routeMatch(spec, path) ==
    IF spec = "/services/:serviceId" /\ path = "/services/a"
    THEN [matched |-> TRUE, serviceId |-> "a"]
    ELSE IF spec = "/services/:serviceId" /\ path = "/services/b"
    THEN [matched |-> TRUE, serviceId |-> "b"]
    ELSE IF spec = "/backend-proxying/" /\ path = "/backend-proxying/"
    THEN [matched |-> TRUE, serviceId |-> ""]
    ELSE NoMatch

\* paramsContainsPath, lines 76-78.
paramsContainsPath(params) == params.pathType = "string"

\* { ...params, route: { spec, params: routeParams } }, lines 66-72.
withRoute(params, spec, routeParams) ==
    [pathType |-> params.pathType, path |-> params.path, extra |-> params.extra,
     route |-> [spec |-> spec, params |-> routeParams]]

NoArg == withRoute([pathType |-> "undefined", path |-> "", extra |-> ""], "", NoMatch)

\* What one call of the route handler did: the calls of next and accept the
\* route handler made itself, the calls of the wrapped handler and its
\* argument, and what the wrapped handler did in turn.
NoOutcome ==
    [params |-> [pathType |-> "undefined", path |-> "", extra |-> ""],
     selfNext |-> 0, selfNextError |-> FALSE, selfAccept |-> 0,
     handlerCalls |-> 0, handlerArg |-> NoArg, wrapped |-> "none"]

callsNext(params) ==
    [NoOutcome EXCEPT !.params = params, !.selfNext = 1]

callsHandler(params, spec, routeParams, behaviour) ==
    [NoOutcome EXCEPT !.params = params, !.handlerCalls = 1,
                      !.handlerArg = withRoute(params, spec, routeParams),
                      !.wrapped = behaviour]

\* The handler without the returns of lines 60 and 64: next() is called and
\* the wrapped handler is called all the same.
routeHandler_FallThrough(spec, params, behaviour) ==
    IF ~paramsContainsPath(params) \/ ~routeMatch(spec, params.path).matched
    THEN [callsHandler(params, spec, NoMatch, behaviour) EXCEPT !.selfNext = 1]
    ELSE callsHandler(params, spec, routeMatch(spec, params.path), behaviour)

\* The handler returned by createRouteHandler, lines 58-74.
routeHandler(spec, params, behaviour) ==
    IF ~paramsContainsPath(params)
    THEN callsNext(params)
    ELSE LET routeParams == routeMatch(spec, params.path)
         IN  IF ~routeParams.matched
             THEN callsNext(params)
             ELSE callsHandler(params, spec, routeParams, behaviour)

InitRh ==
    /\ rh = [spec |-> "", requests |-> 0, last |-> NoOutcome]
    /\ rc = Unused /\ sp = Unused /\ router = Unused /\ ms = Unused
    /\ svc = Unused /\ rpc = Unused /\ srv = Unused
    /\ cr = Unused /\ ag = Unused /\ mux = Unused

\* createRouteHandler(spec, handler), lines 53-75.
CreateRouteHandler(spec) ==
    /\ rh.spec = ""
    /\ rh' = [rh EXCEPT !.spec = spec]
    /\ UNCHANGED <<rc, sp, router, ms, svc, rpc, srv, cr, ag, mux>>

\* A request is given to the handler; the wrapped handler, when it is
\* reached, does one of WrappedBehaviours.
RouteRequest(params, behaviour) ==
    /\ rh.spec # ""
    /\ rh.requests < MaxRouteRequests
    /\ rh' = [rh EXCEPT !.requests = @ + 1,
                        !.last = routeHandler(rh.spec, params, behaviour)]
    /\ UNCHANGED <<rc, sp, router, ms, svc, rpc, srv, cr, ag, mux>>

NextRh ==
    \/ \E spec \in RouteSpecs : CreateRouteHandler(spec)
    \/ \E params \in RouteParams, behaviour \in WrappedBehaviours :
            RouteRequest(params, behaviour)

SpecRh == InitRh /\ [][NextRh]_vars

\* The request matches the pattern of the handler.
RouteMatches ==
    /\ rh.last.params.pathType = "string"
    /\ routeMatch(rh.spec, rh.last.params.path).matched

\* C34: for every request the route handler either calls next() once with
\* no error and does not call the wrapped handler (no string path, or no
\* match), or calls the wrapped handler once with the params of the request
\* plus route {spec, params}; it never calls accept itself.
C34_NextOrHandler ==
    rh.requests > 0 =>
        /\ rh.last.selfAccept = 0
        /\ ~RouteMatches =>
              /\ rh.last.selfNext = 1 /\ ~rh.last.selfNextError
              /\ rh.last.handlerCalls = 0
        /\ RouteMatches =>
              /\ rh.last.selfNext = 0
              /\ rh.last.handlerCalls = 1
              /\ rh.last.handlerArg.pathType = rh.last.params.pathType
              /\ rh.last.handlerArg.path = rh.last.params.path
              /\ rh.last.handlerArg.extra = rh.last.params.extra
              /\ rh.last.handlerArg.route.spec = rh.spec
              /\ rh.last.handlerArg.route.params
                    = routeMatch(rh.spec, rh.last.params.path)

\* The second request given to a handler for /services/:serviceId had the
\* string path /other: it was passed on with next() and the wrapped handler
\* was not called.
C34_Witness ==
    /\ rh.spec = "/services/:serviceId" /\ rh.requests = 2
    /\ rh.last.params.pathType = "string" /\ rh.last.params.path = "/other"
    /\ rh.last.selfNext = 1 /\ rh.last.handlerCalls = 0

\* ---------------------------------------------------------------------
\* Part 9: collectRecursive
\* (src/packages/core/src/common/route-handler.ts, lines 121-141)
\* ---------------------------------------------------------------------

\* Containers of the longest parent chain.
MaxChain == 3

Containers == 1 .. MaxChain

\* container.parent === null
NoParent == 0

\* The chain 1 -> 2 -> ... -> n: every container's parent is the next one.
chainOf(n) == [c \in Containers |-> IF c < n THEN c + 1 ELSE NoParent]

\* What collect(container) finds in one container.
Found == {<<>>, <<"h">>}

\* The loop of collectRecursive from container c on, lines 132-139: the
\* parent link of c is cut, collect(c) runs and may throw, the link is put
\* back, and the loop goes on with the parent while there is one.
RECURSIVE collectFrom(_, _, _, _)
collectFrom(c, st, throws, found) ==
    LET parent == st.parent[c]
        cut == [st.parent EXCEPT ![c] = NoParent]
    IN  IF c \in throws
        THEN [parent |-> cut, visited |-> Append(st.visited, c),
              result |-> st.result, status |-> "thrown"]
        ELSE LET restored == [cut EXCEPT ![c] = parent]
                 st2 == [parent |-> restored, visited |-> Append(st.visited, c),
                         result |-> st.result \o found[c], status |-> "returned"]
             IN  IF restored[c] = NoParent THEN st2
                 ELSE collectFrom(restored[c], st2, throws, found)

\* collectRecursive(container, collect), lines 129-141.
collectRecursive(container, parent, throws, found) ==
    collectFrom(container,
                [parent |-> parent, visited |-> <<>>, result |-> <<>>,
                 status |-> "returned"],
                throws, found)

\* A chain of n containers; collect throws in the containers of throws and
\* finds found[c] in the others.  Nothing has been collected yet.
InitCr ==
    /\ \E n \in Containers, throws \in SUBSET Containers, found \in [Containers -> Found] :
          /\ throws \subseteq 1 .. n
          /\ \A c \in Containers : c > n => found[c] = <<>>
          /\ cr = [n |-> n, throws |-> throws, found |-> found,
                   parent |-> chainOf(n), calls |-> 0,
                   visited |-> <<>>, result |-> <<>>, status |-> "none"]
    /\ rc = Unused /\ sp = Unused /\ router = Unused /\ ms = Unused
    /\ svc = Unused /\ rpc = Unused /\ srv = Unused
    /\ rh = Unused /\ ag = Unused /\ mux = Unused

\* collectRecursive is called on the first container of the chain.
CollectRecursive ==
    /\ cr.calls = 0
    /\ LET out == collectRecursive(1, cr.parent, cr.throws, cr.found)
       IN  cr' = [cr EXCEPT !.calls = 1, !.parent = out.parent,
                            !.visited = out.visited, !.result = out.result,
                            !.status = out.status]
    /\ UNCHANGED <<rc, sp, router, ms, svc, rpc, srv, rh, ag, mux>>

NextCr == CollectRecursive

SpecCr == InitCr /\ [][NextCr]_vars

\* C36: collectRecursive visits every container of the chain once, child
\* before parent, and on every exit, a throw of collect included, every
\* container has the parent it had before the call.
C36_ParentLinksRestored ==
    cr.calls > 0 =>
        /\ cr.parent = chainOf(cr.n)
        /\ cr.status = "returned" =>
              /\ Len(cr.visited) = cr.n
              /\ \A i \in 1 .. cr.n : cr.visited[i] = i

\* ---------------------------------------------------------------------
\* Part 10: AgentServiceImpl
\* (src/packages/ai-core/src/common/agent-service.ts, lines 53-90)
\* ---------------------------------------------------------------------

\* Agents registered with registerAgent.
MaxAgents == 2

\* Agent ids: "z" is the id of no agent.
AgentIds == {"a", "b", "z"}

\* Agents: two agents may have the same id.
Agents == [id : {"a", "b"}, name : {"x", "y"}]

\* What agentsProvider.getContributions() returns.
AgentContributions == {<<>>, <<[id |-> "b", name |-> "x"]>>}

\* get agents(), lines 62-66: the contributions, then the registered agents.
agents(s) == s.contributions \o s.registered

\* isEnabled(agentId), lines 88-90.
isEnabled(s, agentId) == agentId \notin s.disabledAgents

\* getAgents(), lines 72-74.
getAgents(s) ==
    LET enabled(agent) == isEnabled(s, agent.id)
    IN  SelectSeq(agents(s), enabled)

\* getAllAgents(), lines 76-78.
getAllAgents(s) == agents(s)

\* registerAgent(agent), lines 68-70.
registerAgent(s, agent) == [s EXCEPT !.registered = Append(@, agent)]

\* enableAgent that forgets every disabled id.
enableAgent_Clear(s, agentId) ==
    [s EXCEPT !.disabledAgents = {}, !.lastCall[agentId] = "enable"]

\* enableAgent(agentId), lines 80-82.
enableAgent(s, agentId) ==
    [s EXCEPT !.disabledAgents = @ \ {agentId}, !.lastCall[agentId] = "enable"]

\* disableAgent(agentId), lines 84-86.
disableAgent(s, agentId) ==
    [s EXCEPT !.disabledAgents = @ \cup {agentId}, !.lastCall[agentId] = "disable"]

\* A new AgentServiceImpl, lines 55-60; lastCall records for every id the
\* most recent of enableAgent and disableAgent called with it.
InitAg ==
    /\ \E contributions \in AgentContributions :
          ag = [contributions |-> contributions, registered |-> <<>>,
                disabledAgents |-> {}, lastCall |-> [id \in AgentIds |-> "none"]]
    /\ rc = Unused /\ sp = Unused /\ router = Unused /\ ms = Unused
    /\ svc = Unused /\ rpc = Unused /\ srv = Unused
    /\ rh = Unused /\ cr = Unused /\ mux = Unused

RegisterAgent(agent) ==
    /\ Len(ag.registered) < MaxAgents
    /\ ag' = registerAgent(ag, agent)
    /\ UNCHANGED <<rc, sp, router, ms, svc, rpc, srv, rh, cr, mux>>

EnableAgent(agentId) ==
    /\ ag' = enableAgent(ag, agentId)
    /\ UNCHANGED <<rc, sp, router, ms, svc, rpc, srv, rh, cr, mux>>

DisableAgent(agentId) ==
    /\ ag' = disableAgent(ag, agentId)
    /\ UNCHANGED <<rc, sp, router, ms, svc, rpc, srv, rh, cr, mux>>

NextAg ==
    \/ \E agent \in Agents : RegisterAgent(agent)
    \/ \E agentId \in AgentIds : EnableAgent(agentId)
    \/ \E agentId \in AgentIds : DisableAgent(agentId)

SpecAg == InitAg /\ [][NextAg]_vars

\* The most recent enableAgent / disableAgent call for the id disabled it.
LastDisabled(agentId) == ag.lastCall[agentId] = "disable"

\* The agents of a list whose id was not disabled last, in the order of
\* the list.
RECURSIVE NotLastDisabled(_)
NotLastDisabled(list) ==
    IF list = <<>> THEN <<>>
    ELSE (IF LastDisabled(Head(list).id) THEN <<>> ELSE <<Head(list)>>)
            \o NotLastDisabled(Tail(list))

\* C39: after any sequence of enableAgent, disableAgent and registerAgent
\* calls isEnabled(id) is false exactly when the most recent enable or
\* disable call for id was disableAgent, and getAgents() is the list of
\* getAllAgents() without the agents whose id is disabled, in the same order.
C39_EnabledFollowsLastCall ==
    /\ \A agentId \in AgentIds : isEnabled(ag, agentId) = ~LastDisabled(agentId)
    /\ getAgents(ag) = NotLastDisabled(getAllAgents(ag))

\* The last call for "a" enabled it and the last call for "b" disabled it:
\* of the contributed agent b and the registered agents a and b only a is
\* listed by getAgents().
C39_Witness ==
    /\ ag.lastCall["a"] = "enable" /\ ag.lastCall["b"] = "disable"
    /\ Len(ag.contributions) = 1 /\ Len(ag.registered) = 2
    /\ ag.registered[1].id = "a" /\ ag.registered[2].id = "b"
    /\ Len(getAllAgents(ag)) = 3
    /\ getAgents(ag) = <<ag.registered[1]>>

\* ---------------------------------------------------------------------
\* Part 11: the ConnectionMultiplexer of the backend and its carrier
\* (src/unnamed/part_000: the bindings of lines 76-98 and
\* FrontendServiceConnectionProvider, lines 220-246; the classes
\* DefaultConnectionMultiplexer and DeferredConnection are not part of the
\* sources at hand and follow the design description)
\* ---------------------------------------------------------------------

\* Messages written on the channels and messages delivered on them.
MaxSends == 2
MaxReceives == 2

\* Logical channels of the multiplexer: each is opened at most once.
Channels == {1, 2}

\* Payloads of channel messages.
Payloads == {"p", "q"}

\* The path of an arriving connection: a string, or not a string.
NotAString == "<number>"
ArrivalPaths == {"/backend-proxying/", "/other", NotAString}

\* BACKEND_PROXYING_ROUTE.match(path), lines 28 and 233.
backendProxyingMatch(path) == path = "/backend-proxying/"

\* A frame on the carrier: the opening of a channel, a message of a channel
\* or the closing of a channel.
frame(ch, kind, payload) == [ch |-> ch, kind |-> kind, payload |-> payload]

NoOp == [op |-> "none", ch |-> 0, res |-> "none"]

\* DefaultConnectionMultiplexer.initialize(deferredConnectionFactory(
\* backendProxyingConnection)), lines 76-83: the carrier is a promise that
\* is not resolved, no channel is open, nothing is queued or on the wire.
newMultiplexer ==
    [deferred |-> "unresolved", carrier |-> "none",
     channels |-> [ch \in Channels |-> "none"],
     queue |-> <<>>, wire |-> <<>>,
     sent |-> [ch \in Channels |-> <<>>],
     delivered |-> [ch \in Channels |-> 0],
     last |-> NoOp]

\* A frame is written to the carrier: onto the wire when the carrier has
\* resolved and is open, into the queue while it has not resolved, and
\* nowhere once the carrier has closed.
write(s, f) ==
    IF s.deferred = "unresolved" THEN [s EXCEPT !.queue = Append(@, f)]
    ELSE IF s.carrier = "open" THEN [s EXCEPT !.wire = Append(@, f)]
    ELSE s

\* The carrier resolves and what was queued is forgotten.
carrierResolved_DropQueue(s) ==
    [s EXCEPT !.deferred = "resolved", !.carrier = "open", !.queue = <<>>]

\* The carrier promise resolves: the queued frames go onto the wire in the
\* order in which they were queued.
carrierResolved(s) ==
    [s EXCEPT !.deferred = "resolved", !.carrier = "open",
              !.wire = @ \o s.queue, !.queue = <<>>]

\* The handler of createConnectionHandler(), lines 229-245: a connection
\* whose path is no string or does not match is passed on; a second
\* matching connection is refused with an error; the first one is accepted
\* and resolves the deferred carrier connection.
connectionHandler(s, path) ==
    IF path = NotAString THEN [s EXCEPT !.last = [NoOp EXCEPT !.op = "arrive", !.res = "next"]]
    ELSE IF ~backendProxyingMatch(path)
    THEN [s EXCEPT !.last = [NoOp EXCEPT !.op = "arrive", !.res = "next"]]
    ELSE IF s.deferred # "unresolved"
    THEN [s EXCEPT !.last = [NoOp EXCEPT !.op = "arrive", !.res = "error"]]
    ELSE [carrierResolved(s) EXCEPT !.last = [NoOp EXCEPT !.op = "arrive", !.res = "accepted"]]

\* connectionProvider.open({ path }), line 92: the channel is open at once
\* and its opening is written to the carrier.
open(s, ch) ==
    [write(s, frame(ch, "open", "")) EXCEPT
        !.channels[ch] = "open",
        !.last = [op |-> "open", ch |-> ch, res |-> "ok"]]

\* A message is sent on a channel: written to the carrier when the channel
\* is open, dropped when it is closed.
send(s, ch, payload) ==
    IF s.channels[ch] = "open"
    THEN [write(s, frame(ch, "message", payload)) EXCEPT
            !.sent[ch] = Append(@, payload),
            !.last = [op |-> "send", ch |-> ch, res |-> "written"]]
    ELSE [s EXCEPT !.last = [op |-> "send", ch |-> ch, res |-> "dropped"]]

\* A message for a channel comes in: it is delivered on the channel when
\* the carrier and the channel are open and dropped otherwise.
receive(s, ch) ==
    IF s.carrier = "open" /\ s.channels[ch] = "open"
    THEN [s EXCEPT !.delivered[ch] = @ + 1,
                   !.last = [op |-> "receive", ch |-> ch, res |-> "delivered"]]
    ELSE [s EXCEPT !.last = [op |-> "receive", ch |-> ch, res |-> "dropped"]]

\* Closing a channel that closes every channel.
closeChannel_CloseAll(s, ch) ==
    [write(s, frame(ch, "close", "")) EXCEPT
        !.channels = [c \in Channels |-> IF @[c] = "open" THEN "closed" ELSE @[c]],
        !.last = [op |-> "closeChannel", ch |-> ch, res |-> "ok"]]

\* A channel is closed: its closing is written to the carrier and the
\* channel reports closed; nothing else changes.
closeChannel(s, ch) ==
    [write(s, frame(ch, "close", "")) EXCEPT
        !.channels[ch] = "closed",
        !.last = [op |-> "closeChannel", ch |-> ch, res |-> "ok"]]

\* The carrier closes and the channels stay as they are.
carrierClosed_KeepChannels(s) ==
    [s EXCEPT !.carrier = "closed",
              !.last = [op |-> "carrierClose", ch |-> 0, res |-> "ok"]]

\* The carrier closes: every channel that is open closes with it.
carrierClosed(s) ==
    [s EXCEPT !.carrier = "closed",
              !.channels = [c \in Channels |-> IF @[c] = "open" THEN "closed" ELSE @[c]],
              !.last = [op |-> "carrierClose", ch |-> 0, res |-> "ok"]]

InitMux ==
    /\ mux = newMultiplexer
    /\ rc = Unused /\ sp = Unused /\ router = Unused /\ ms = Unused
    /\ svc = Unused /\ rpc = Unused /\ srv = Unused
    /\ rh = Unused /\ cr = Unused /\ ag = Unused

\* A connection arrives at the handler of FrontendServiceConnectionProvider.
CarrierArrives(path) ==
    /\ mux' = connectionHandler(mux, path)
    /\ UNCHANGED <<rc, sp, router, ms, svc, rpc, srv, rh, cr, ag>>

\* A proxy is created: its channel is opened, lines 90-93.
OpenChannel(ch) ==
    /\ mux.channels[ch] = "none"
    /\ mux.carrier # "closed"
    /\ mux' = open(mux, ch)
    /\ UNCHANGED <<rc, sp, router, ms, svc, rpc, srv, rh, cr, ag>>

SendOn(ch, payload) ==
    /\ mux.channels[ch] # "none"
    /\ Len(mux.sent[1]) + Len(mux.sent[2]) < MaxSends
    /\ mux' = send(mux, ch, payload)
    /\ UNCHANGED <<rc, sp, router, ms, svc, rpc, srv, rh, cr, ag>>

ReceiveOn(ch) ==
    /\ mux.channels[ch] # "none"
    /\ mux.deferred = "resolved"
    /\ mux.delivered[1] + mux.delivered[2] < MaxReceives
    /\ mux' = receive(mux, ch)
    /\ UNCHANGED <<rc, sp, router, ms, svc, rpc, srv, rh, cr, ag>>

CloseChannel(ch) ==
    /\ mux.channels[ch] = "open"
    /\ mux' = closeChannel(mux, ch)
    /\ UNCHANGED <<rc, sp, router, ms, svc, rpc, srv, rh, cr, ag>>

CarrierCloses ==
    /\ mux.carrier = "open"
    /\ mux' = carrierClosed(mux)
    /\ UNCHANGED <<rc, sp, router, ms, svc, rpc, srv, rh, cr, ag>>

NextMux ==
    \/ \E path \in ArrivalPaths : CarrierArrives(path)
    \/ \E ch \in Channels : OpenChannel(ch)
    \/ \E ch \in Channels, payload \in Payloads : SendOn(ch, payload)
    \/ \E ch \in Channels : ReceiveOn(ch)
    \/ \E ch \in Channels : CloseChannel(ch)
    \/ CarrierCloses

SpecMux == InitMux /\ [][NextMux]_vars

\* The payloads of the messages of channel ch among frames, in their order.
RECURSIVE messagesOf(_, _)
messagesOf(frames, ch) ==
    IF frames = <<>> THEN <<>>
    ELSE (IF Head(frames).ch = ch /\ Head(frames).kind = "message"
          THEN <<Head(frames).payload>> ELSE <<>>)
            \o messagesOf(Tail(frames), ch)

\* No closing of a channel was written to the carrier.
NoChannelClosed ==
    /\ \A i \in 1 .. Len(mux.wire) : mux.wire[i].kind # "close"
    /\ \A i \in 1 .. Len(mux.queue) : mux.queue[i].kind # "close"

\* C31: when the carrier of a multiplexer closes, every channel that is
\* open on it reports closed, and afterwards no message is delivered on any
\* channel and none goes onto the wire: no channel outlives its carrier.
C31_ChannelsCloseWithCarrier ==
    [][/\ mux'.carrier = "closed" => \A ch \in Channels : mux'.channels[ch] # "open"
       /\ mux.carrier = "closed" =>
              /\ mux'.delivered = mux.delivered
              /\ mux'.wire = mux.wire]_vars

\* Both channels were open when the carrier closed; both report closed and
\* a message that came in for one of them afterwards was dropped.
C31_Witness ==
    /\ mux.carrier = "closed"
    /\ \A ch \in Channels : mux.channels[ch] = "closed"
    /\ NoChannelClosed
    /\ mux.last = [op |-> "receive", ch |-> 1, res |-> "dropped"]

\* The step closes the channel named in its record.
ClosesChannel ==
    /\ mux'.last.op = "closeChannel"
    /\ mux.channels[mux'.last.ch] = "open"

\* The step is a send or a receive on an open channel of an open carrier.
OnOpenChannel(op) ==
    /\ mux'.last.op = op
    /\ mux.channels[mux'.last.ch] = "open"
    /\ mux.carrier = "open"

\* C32: closing one channel leaves every other channel and the carrier as
\* they were, and an open channel of an open carrier goes on exchanging
\* messages whatever happened to the other channels: what is sent on it
\* goes onto the wire and what comes in for it is delivered.
C32_SiblingsUnaffected ==
    [][/\ ClosesChannel =>
              /\ \A ch \in Channels \ {mux'.last.ch} :
                    /\ mux'.channels[ch] = mux.channels[ch]
                    /\ mux'.delivered[ch] = mux.delivered[ch]
                    /\ mux'.sent[ch] = mux.sent[ch]
              /\ mux'.carrier = mux.carrier
              /\ mux'.deferred = mux.deferred
       /\ OnOpenChannel("send") =>
              /\ mux'.last.res = "written"
              /\ Len(mux'.wire) = Len(mux.wire) + 1
              /\ mux'.wire[Len(mux'.wire)].ch = mux'.last.ch
              /\ mux'.wire[Len(mux'.wire)].kind = "message"
       /\ OnOpenChannel("receive") =>
              /\ mux'.last.res = "delivered"
              /\ mux'.delivered[mux'.last.ch] = mux.delivered[mux'.last.ch] + 1]_vars

\* Channel 1 was closed on an open carrier; channel 2 is still open, a
\* message was delivered on it and a message sent on it went onto the wire
\* after the closing of channel 1.
C32_Witness ==
    /\ mux.carrier = "open"
    /\ mux.channels[1] = "closed" /\ mux.channels[2] = "open"
    /\ mux.delivered[2] = 1
    /\ mux.last = [op |-> "send", ch |-> 2, res |-> "written"]
    /\ Len(mux.wire) >= 2
    /\ mux.wire[Len(mux.wire)] = frame(2, "message", "p")
    /\ mux.wire[Len(mux.wire) - 1] = frame(1, "close", "")

\* C33: nothing sent on a channel goes onto the wire before the carrier
\* has resolved; until then it is held back in the order of sending, and
\* from the resolution on the wire carries, for every channel, exactly the
\* messages sent on it, in the order in which they were sent.
C33_DeferredUntilCarrierResolves ==
    /\ mux.deferred = "unresolved" =>
          /\ mux.wire = <<>>
          /\ \A ch \in Channels : messagesOf(mux.queue, ch) = mux.sent[ch]
    /\ mux.deferred = "resolved" =>
          /\ mux.queue = <<>>
          /\ \A ch \in Channels : messagesOf(mux.wire, ch) = mux.sent[ch]

\* Two messages were sent on channel 1 and none on channel 2 before the
\* carrier connection arrived; its arrival put them onto the wire in order.
C33_Witness ==
    /\ mux.last = [op |-> "arrive", ch |-> 0, res |-> "accepted"]
    /\ mux.sent[1] = <<"p", "q">> /\ mux.sent[2] = <<>>
    /\ mux.channels[2] = "open"
    /\ messagesOf(mux.wire, 1) = <<"p", "q">>

====
